---- MODULE Spec2Model ----
(***************************************************************************)
(* MirrorBank (app_streamlit): a personal finance tracker.  Every page is  *)
(* a Streamlit script that runs read queries against a MySQL store and     *)
(* turns form submissions into single INSERT / UPDATE / DELETE statements. *)
(*                                                                         *)
(* Amounts are integers in minor units (1 = 0.01).  A DATE is a day number *)
(* (2023-01-01 = 1); a DATETIME is a number of seconds,                    *)
(* day * SecondsPerDay + second-of-day.                                    *)
(***************************************************************************)
EXTENDS Integers, Sequences, FiniteSets, TLC

VARIABLES accounts, transactions, budgets, goals, budget_alerts, nextId, now,
          sess, shown, last

vars == <<accounts, transactions, budgets, goals, budget_alerts, nextId, now,
          sess, shown, last>>

store == <<accounts, transactions, budgets, goals, budget_alerts, nextId>>

(***************************************************************************)
(* Program constants                                                       *)
(***************************************************************************)
USER_ID == 1

\* SQL NULL in an integer column (ids start at 1)
NULL == 0

\* SQL NULL in a text column (merchant, notes)
NoText == "<NULL>"

PERIODS == {"weekly", "monthly"}

TX_TYPES == {"debit", "credit"}

\* four of the eleven entries of the Add Transaction select box
CATEGORY_SUGGESTIONS == {"Groceries", "Bills", "Salary", "Other"}

SecondsPerDay == 86400

(***************************************************************************)
(* Tables of the store (the columns the pages read and write)              *)
(***************************************************************************)
AccountRow(id, uid, name, bal, thr) ==
  [id |-> id, user_id |-> uid, name |-> name, balance |-> bal,
   low_balance_threshold |-> thr]

TxRow(id, uid, acc, amt, type, cat, merch, goal, ts) ==
  [id |-> id, user_id |-> uid, account_id |-> acc, amount |-> amt,
   tx_type |-> type, category |-> cat, merchant |-> merch, notes |-> NoText,
   goal_id |-> goal, ts |-> ts]

BudgetRow(id, uid, cat, period, limit, start) ==
  [id |-> id, user_id |-> uid, category |-> cat, period |-> period,
   limit_amount |-> limit, start_date |-> start]

GoalRow(id, uid, name, target, date) ==
  [id |-> id, user_id |-> uid, name |-> name, target_amount |-> target,
   target_date |-> date]

AlertRow(id, uid, budget_id, level, message, created_at) ==
  [id |-> id, user_id |-> uid, budget_id |-> budget_id, level |-> level,
   message |-> message, created_at |-> created_at]

(***************************************************************************)
(* Calendar: MySQL DATE arithmetic                                         *)
(***************************************************************************)
IsLeap(y) == (y % 4 = 0 /\ y % 100 # 0) \/ y % 400 = 0

YearLen(y) == IF IsLeap(y) THEN 366 ELSE 365

DaysInMonth(y, m) ==
  IF m = 2 THEN (IF IsLeap(y) THEN 29 ELSE 28)
  ELSE IF m \in {4, 6, 9, 11} THEN 30 ELSE 31

RECURSIVE DaysBeforeYear(_)
DaysBeforeYear(y) ==
  IF y <= 2023 THEN 0 ELSE DaysBeforeYear(y - 1) + YearLen(y - 1)

RECURSIVE DaysBeforeMonth(_, _)
DaysBeforeMonth(y, m) ==
  IF m <= 1 THEN 0 ELSE DaysBeforeMonth(y, m - 1) + DaysInMonth(y, m - 1)

\* the DATE y-m-d as a day number
MkDate(y, m, d) == DaysBeforeYear(y) + DaysBeforeMonth(y, m) + d

RECURSIVE YearFrom(_, _)
YearFrom(n, y) ==
  IF n <= DaysBeforeYear(y + 1) THEN y ELSE YearFrom(n, y + 1)

YearOf(n) == YearFrom(n, 2023)

RECURSIVE MonthFrom(_, _, _)
MonthFrom(n, y, m) ==
  IF m >= 12 \/ n <= DaysBeforeYear(y) + DaysBeforeMonth(y, m + 1)
  THEN m ELSE MonthFrom(n, y, m + 1)

MonthOf(n) == MonthFrom(n, YearOf(n), 1)

DayOf(n) == n - DaysBeforeYear(YearOf(n)) - DaysBeforeMonth(YearOf(n), MonthOf(n))

\* DATE_ADD(d, INTERVAL k DAY)
DATE_ADD(d, k) == d + k

\* LAST_DAY(d): the last day of the month d lies in
LAST_DAY(d) == MkDate(YearOf(d), MonthOf(d), DaysInMonth(YearOf(d), MonthOf(d)))

\* DATE_ADD(d, INTERVAL 1 MONTH): same day of the next month, capped to its length
AddOneMonth(d) ==
  LET y  == YearOf(d)
      m  == MonthOf(d)
      y2 == IF m = 12 THEN y + 1 ELSE y
      m2 == IF m = 12 THEN 1 ELSE m + 1
      dd == IF DayOf(d) > DaysInMonth(y2, m2) THEN DaysInMonth(y2, m2) ELSE DayOf(d)
  IN  MkDate(y2, m2, dd)

\* a DATE compared with a DATETIME is taken at 00:00:00
DateToTs(d) == d * SecondsPerDay

\* datetime.combine(d, t).strftime(...): the DATETIME of day d, second t
MkTs(d, t) == d * SecondsPerDay + t

\* DATE(ts)
DateOfTs(ts) == ts \div SecondsPerDay

(***************************************************************************)
(* The store boundary (utils/db.py)                                        *)
(***************************************************************************)
\* variant: a statement that failed is sent again and answered
run_query_fetch_Retry(up, rows) == rows

\* run_query(..., fetch=True): the rows, or None when the connection or the
\* statement fails; every caller takes `rows or []`
run_query_fetch(up, rows) == IF up THEN rows ELSE {}

\* variant: the result of the statement is not looked at
run_query_write_Unchecked(up, accepted) == TRUE

\* variant: a statement that failed on the store's side is sent again
run_query_write_Retry(up, accepted) == accepted

\* run_query(..., fetch=False): True once the statement has been executed and
\* committed, whatever number of rows it touched; None when the connection
\* or the statement fails
run_query_write(up, accepted) == up /\ accepted

RECURSIVE SumAmount(_)
\* SUM(amount) over a non-empty set of rows
SumAmount(rows) ==
  IF rows = {} THEN 0
  ELSE LET r == CHOOSE x \in rows : TRUE
       IN  r.amount + SumAmount(rows \ {r})

\* n / d rounded to the nearest integer, ties to the even one (numpy's round)
RoundHalfEven(n, d) ==
  LET n2 == IF d < 0 THEN 0 - n ELSE n
      d2 == IF d < 0 THEN 0 - d ELSE d
      q  == n2 \div d2
      r  == n2 % d2
  IN  IF 2 * r < d2 THEN q
      ELSE IF 2 * r > d2 THEN q + 1
      ELSE IF q % 2 = 0 THEN q ELSE q + 1

\* pd.to_numeric(col, errors="coerce").fillna(0.0): DECIMAL(.,2) to float;
\* the minor-unit value is kept
to_numeric(x) == x

(***************************************************************************)
(* Budgets page: budgets with progress (pages/Budgets.py)                  *)
(***************************************************************************)
\* the category comparison of the store (collation of the category column)
CategoryEq(a, b) == a = b

\* variant: the monthly end taken as start_date + 1 month
EndDateExpr_PlusOneMonth(b) ==
  IF b.period = "weekly" THEN DATE_ADD(b.start_date, 7)
  ELSE AddOneMonth(b.start_date)

\* CASE WHEN period='weekly' ... END AS end_date
EndDateExpr(b) ==
  IF b.period = "weekly" THEN DATE_ADD(b.start_date, 7)
  ELSE DATE_ADD(LAST_DAY(b.start_date), 1)

\* variant: the second copy of the CASE expression closes the week a day early
SpentUpperExpr_SixDays(b) ==
  IF b.period = "weekly" THEN DATE_ADD(b.start_date, 6)
  ELSE DATE_ADD(LAST_DAY(b.start_date), 1)

\* the CASE expression repeated as the upper limit of the spent subquery
SpentUpperExpr(b) ==
  IF b.period = "weekly" THEN DATE_ADD(b.start_date, 7)
  ELSE DATE_ADD(LAST_DAY(b.start_date), 1)

\* variant: the upper limit of the window taken inclusive
SpentWhere_InclusiveEnd(t, b) ==
  /\ t.user_id = b.user_id
  /\ CategoryEq(t.category, b.category)
  /\ t.tx_type = "debit"
  /\ t.ts >= DateToTs(b.start_date)
  /\ t.ts <= DateToTs(SpentUpperExpr(b))

\* the WHERE clause of the spent subquery
SpentWhere(t, b) ==
  /\ t.user_id = b.user_id
  /\ CategoryEq(t.category, b.category)
  /\ t.tx_type = "debit"
  /\ t.ts >= DateToTs(b.start_date)
  /\ t.ts < DateToTs(SpentUpperExpr(b))

\* COALESCE((SELECT SUM(t.amount) ...), 0) AS spent
SpentExpr(b) ==
  LET rows == {t \in transactions : SpentWhere(t, b)}
  IN  IF rows = {} THEN 0 ELSE SumAmount(rows)

\* the budgets query for owner uid
BudgetsQuery(uid) ==
  {[id |-> b.id, category |-> b.category, period |-> b.period,
    limit_amount |-> b.limit_amount, start_date |-> b.start_date,
    end_date |-> EndDateExpr(b), spent |-> SpentExpr(b)] :
     b \in {x \in budgets : x.user_id = uid}}

\* variant: remaining clamped at 0 as on the Goals page
BudgetRemaining_Clamped(limit, spent) ==
  IF limit - spent < 0 THEN 0 ELSE limit - spent

\* budgets["remaining"]
BudgetRemaining(limit, spent) == limit - spent

\* variant: progress capped at 100 percent
BudgetProgress_Capped(limit, spent) ==
  IF limit = 0 THEN 0
  ELSE IF RoundHalfEven(10000 * spent, limit) > 10000 THEN 10000
  ELSE RoundHalfEven(10000 * spent, limit)

\* budgets["progress_%"], in hundredths of a percent:
\* (spent / limit).replace([inf], 0.0) * 100.0, then fillna(0.0).round(2)
BudgetProgress(limit, spent) ==
  IF limit = 0
  THEN IF spent < 0 THEN "-inf" ELSE 0
  ELSE RoundHalfEven(10000 * spent, limit)

\* the frame the page shows and the handlers pick from
BudgetsFrame(rows) ==
  {[id |-> r.id, category |-> r.category, period |-> r.period,
    start_date |-> r.start_date, end_date |-> r.end_date,
    limit_amount |-> to_numeric(r.limit_amount),
    spent |-> to_numeric(r.spent),
    remaining |-> BudgetRemaining(to_numeric(r.limit_amount), to_numeric(r.spent)),
    progress |-> BudgetProgress(to_numeric(r.limit_amount), to_numeric(r.spent))] :
     r \in rows}

(***************************************************************************)
(* Goals page: goals with contributions (pages/Goals.py)                   *)
(***************************************************************************)
\* variant: every tagged transaction counted, whatever its type
CreditAmount_AnyType(t) == t.amount

\* CASE WHEN t.tx_type='credit' THEN t.amount ELSE 0 END
CreditAmount(t) == IF t.tx_type = "credit" THEN t.amount ELSE 0

RECURSIVE SumCredit(_)
\* SUM(CASE ...) over the joined rows
SumCredit(rows) ==
  IF rows = {} THEN 0
  ELSE LET r == CHOOSE x \in rows : TRUE
       IN  CreditAmount(r) + SumCredit(rows \ {r})

\* LEFT JOIN transactions t ON t.goal_id = g.id
GoalJoin(g) == {t \in transactions : t.goal_id = g.id}

\* COALESCE(SUM(...), 0) AS contributed; a goal without joined rows keeps
\* its one row of the LEFT JOIN
ContributedExpr(g) == SumCredit(GoalJoin(g))

\* the goals query for owner uid
GoalsQuery(uid) ==
  {[id |-> g.id, name |-> g.name, target_amount |-> g.target_amount,
    target_date |-> g.target_date, contributed |-> ContributedExpr(g)] :
     g \in {x \in goals : x.user_id = uid}}

\* variant: remaining left unclamped as on the Budgets page
GoalRemaining_Unclamped(target, contributed) == target - contributed

\* goals["remaining"]: (target - contributed).clip(lower=0.0)
GoalRemaining(target, contributed) ==
  IF target - contributed < 0 THEN 0 ELSE target - contributed

\* variant: progress capped at 100 percent
GoalProgress_Capped(target, contributed) ==
  IF target = 0 THEN 0
  ELSE IF RoundHalfEven(10000 * contributed, target) > 10000 THEN 10000
  ELSE RoundHalfEven(10000 * contributed, target)

\* goals["progress_%"], in hundredths of a percent:
\* (contributed / target.replace(0, NA)).fillna(0.0) * 100.0, then round(2)
GoalProgress(target, contributed) ==
  IF target = 0 THEN 0 ELSE RoundHalfEven(10000 * contributed, target)

GoalsFrame(rows) ==
  {[id |-> r.id, name |-> r.name, target_date |-> r.target_date,
    target_amount |-> to_numeric(r.target_amount),
    contributed |-> to_numeric(r.contributed),
    remaining |-> GoalRemaining(to_numeric(r.target_amount), to_numeric(r.contributed)),
    progress |-> GoalProgress(to_numeric(r.target_amount), to_numeric(r.contributed))] :
     r \in rows}

\* SELECT id, name FROM accounts ORDER BY id
AccountNamesQuery == {[id |-> a.id, name |-> a.name] : a \in accounts}

(***************************************************************************)
(* Sessions: one browser session runs one page script at a time.  sess[s]   *)
(* holds the page and the ids of the frames its forms pick from; shown is  *)
(* the table the latest load rendered.                                     *)
(***************************************************************************)
Sessions == {"A", "B"}

NoPage == [page |-> "none", budgets |-> {}, goals |-> {}, accounts |-> {}, txs |-> {}]

\* what the last script step did: the button or load, the message shown, and
\* the inputs it acted on (0 where there is none; key is the tuple of the
\* other inputs a form submitted, empty where there is none)
OutcomeOf(op, msg, id, ref, amount) ==
  [op |-> op, msg |-> msg, id |-> id, ref |-> ref, amount |-> amount, key |-> <<>>]

\* the outcome of a form that submitted the inputs k
Submitted(o, k) == [o EXCEPT !.key = k]

\* the outcome of a load whose queries, in order, were answered by the store
\* (TRUE) or came back as None (FALSE), followed by the filters of a search
Answered(o, ups) == [o EXCEPT !.key = ups]

\* the outcome of a form whose statement went to run_query; up: neither the
\* connection nor the execution failed on the store's side
Attempted(o, up) == [o EXCEPT !.key = <<up>>]

Outcome(op, msg) == OutcomeOf(op, msg, 0, 0, 0)

Ids(rows) == {r.id : r \in rows}

\* str.strip() on the text inputs of the model
Strip(x) ==
  CASE x = " " -> ""
    [] x = "delete " -> "delete"
    [] x = " Trip" -> "Trip"
    [] OTHER -> x

\* str.upper() on the text inputs of the model
Upper(x) ==
  CASE x = "delete" -> "DELETE"
    [] OTHER -> x

\* confirm.strip().upper() == "DELETE"
Confirmed(text) == Upper(Strip(text)) = "DELETE"

ConfirmInputs == {"delete ", ""}

\* the script run is over: the next click starts a new run, and the table of
\* an earlier load is no longer the latest output
EndRun(s) ==
  /\ sess' = [sess EXCEPT ![s] = NoPage]
  /\ shown' = {}

\* a run of the Budgets script up to the table
LoadBudgets(s) ==
  \E up \in BOOLEAN :
    LET df == BudgetsFrame(run_query_fetch(up, BudgetsQuery(USER_ID)))
    IN  /\ sess' = [sess EXCEPT ![s] = [NoPage EXCEPT !.page = "Budgets", !.budgets = Ids(df)]]
        /\ shown' = df
        /\ last' = Answered(Outcome("load_budgets",
                               IF df = {} THEN "No budgets yet." ELSE "table"), <<up>>)
        /\ UNCHANGED <<store, now>>

\* a run of the Goals script up to the forms: the goals query and, when it
\* returned rows, the accounts query of the contribution form
LoadGoals(s) ==
  \E up \in BOOLEAN, up2 \in BOOLEAN :
    LET df  == GoalsFrame(run_query_fetch(up, GoalsQuery(USER_ID)))
        acc == IF df = {} THEN {} ELSE run_query_fetch(up2, AccountNamesQuery)
    IN  /\ sess' = [sess EXCEPT ![s] =
                      [NoPage EXCEPT !.page = "Goals", !.goals = Ids(df), !.accounts = Ids(acc)]]
        /\ shown' = df
        /\ last' = Answered(Outcome("load_goals",
                               IF df = {} THEN "No goals yet." ELSE "table"),
                             IF df = {} THEN <<up>> ELSE <<up, up2>>)
        /\ UNCHANGED <<store, now>>

(***************************************************************************)
(* The schema of the store (not part of the sources; taken from the        *)
(* specification's data model and the pages' own messages)                 *)
(***************************************************************************)
\* AUTO_INCREMENT primary keys
AutoId(table) == nextId[table]

Bump(table) == [nextId EXCEPT ![table] = @ + 1]

\* transactions.account_id references accounts(id)
AccountExists(id) == \E a \in accounts : a.id = id

\* transactions.goal_id references goals(id), or is NULL
GoalRefOk(id) == id = NULL \/ \E g \in goals : g.id = id

\* amount is a non-negative magnitude
AmountOk(x) == x >= 0

\* ON DELETE SET NULL of transactions.goal_id: the rows that referenced a
\* deleted goal keep everything but the reference
OnDeleteSetNull(txs, goalsLeft) ==
  {IF t.goal_id = NULL \/ (\E g \in goalsLeft : g.id = t.goal_id)
   THEN t ELSE [t EXCEPT !.goal_id = NULL] : t \in txs}

\* the account every model store starts with
SeedAccounts == {AccountRow(1, USER_ID, "Main", 0, 1000)}

(***************************************************************************)
(* Bounds of the model                                                     *)
(***************************************************************************)
MaxTxId == 2

MaxGoalId == 2

MaxBudgetId == 2

MaxTicks == 1

StartOfTime == MkTs(MkDate(2024, 3, 5), 36000)

\* time passes between statements
Tick ==
  /\ now < StartOfTime + MaxTicks
  /\ now' = now + 1
  /\ UNCHANGED <<store, sess, shown, last>>

(***************************************************************************)
(* Goals page: forms (pages/Goals.py)                                      *)
(***************************************************************************)
NameInputs == {" ", " Trip"}

\* number inputs, in minor units (the Create and Contribute inputs have
\* min_value 0; the Edit input has no minimum)
TargetInputs == {0, 10}

ContributionInputs == {0, 2}

NotesInputs == {" "}

\* text if text.strip() else None
TextOrNone(text) == IF Strip(text) = "" THEN NoText ELSE text

\* Create Goal
CreateGoal(s) ==
  /\ sess[s].page = "Goals"
  /\ \E name \in NameInputs, target \in TargetInputs, up \in BOOLEAN :
       LET date == DateOfTs(now) IN
       IF Strip(name) = ""
       THEN /\ last' = OutcomeOf("create_goal", "Please enter a goal name.", 0, 0, target)
            /\ UNCHANGED store
       ELSE IF target <= 0
       THEN /\ last' = OutcomeOf("create_goal", "Target amount must be greater than 0.", 0, 0, target)
            /\ UNCHANGED store
       ELSE /\ AutoId("goals") <= MaxGoalId
            /\ IF run_query_write(up, TRUE)
               THEN /\ goals' = goals \cup
                         {GoalRow(AutoId("goals"), USER_ID, Strip(name), target, date)}
                    /\ nextId' = Bump("goals")
                    /\ last' = Attempted(OutcomeOf("create_goal", "Goal created.", AutoId("goals"), 0, target), up)
                    /\ UNCHANGED <<accounts, transactions, budgets, budget_alerts>>
               ELSE /\ last' = Attempted(OutcomeOf("create_goal", "Could not create goal.", 0, 0, target), up)
                    /\ UNCHANGED store
  /\ EndRun(s)
  /\ UNCHANGED now

\* variant: a zero amount passes the check
ContributionValid_AllowsZero(amount) == amount >= 0

\* if amount <= 0: st.error(...)
ContributionValid(amount) == ~(amount <= 0)

\* variant: one row per goal, rewritten by every contribution
ContributionRow_PerGoal(goal_id, account_id, amount, notes) ==
  [TxRow(goal_id, USER_ID, account_id, amount, "credit",
         "Goal Savings", NoText, goal_id, now)
     EXCEPT !.notes = TextOrNone(notes)]

\* the row of the INSERT of Add Contribution
ContributionRow(goal_id, account_id, amount, notes) ==
  [TxRow(AutoId("transactions"), USER_ID, account_id, amount, "credit",
         "Goal Savings", NoText, goal_id, now)
     EXCEPT !.notes = TextOrNone(notes)]

\* Add Contribution
Contribute(s) ==
  /\ sess[s].page = "Goals"
  /\ \E goal_id \in sess[s].goals, account_id \in sess[s].accounts,
        amount \in ContributionInputs, notes \in NotesInputs, up \in BOOLEAN :
       IF ~ContributionValid(amount)
       THEN /\ last' = OutcomeOf("contribute", "Amount must be greater than 0.", goal_id, account_id, amount)
            /\ UNCHANGED store
       ELSE /\ AutoId("transactions") <= MaxTxId
            /\ IF run_query_write(up, AccountExists(account_id) /\ GoalRefOk(goal_id) /\ AmountOk(amount))
               THEN /\ transactions' = transactions \cup
                         {ContributionRow(goal_id, account_id, amount, notes)}
                    /\ nextId' = Bump("transactions")
                    /\ last' = Attempted(OutcomeOf("contribute", "Contribution recorded.",
                                                   goal_id, account_id, amount), up)
                    /\ UNCHANGED <<accounts, budgets, goals, budget_alerts>>
               ELSE /\ last' = Attempted(OutcomeOf("contribute", "Failed to add contribution.",
                                                   goal_id, account_id, amount), up)
                    /\ UNCHANGED store
  /\ EndRun(s)
  /\ UNCHANGED now

\* UPDATE goals SET name, target_amount, target_date WHERE id
\* (the target date is kept: the form shows the stored one)
GoalsAfterSave(id, name, target) ==
  {IF g.id = id THEN [g EXCEPT !.name = name, !.target_amount = target] ELSE g : g \in goals}

\* Save Goal
SaveGoal(s) ==
  /\ sess[s].page = "Goals"
  /\ \E sel \in sess[s].goals, name \in NameInputs, target \in TargetInputs, up \in BOOLEAN :
       IF run_query_write(up, TRUE)
       THEN /\ goals' = GoalsAfterSave(sel, Strip(name), target)
            /\ last' = Attempted(OutcomeOf("save_goal", "Goal updated.", sel, 0, target), up)
            /\ UNCHANGED <<accounts, transactions, budgets, nextId, budget_alerts>>
       ELSE /\ last' = Attempted(OutcomeOf("save_goal", "Update failed.", sel, 0, target), up)
            /\ UNCHANGED store
  /\ EndRun(s)
  /\ UNCHANGED now

\* variant: the DELETE loses its WHERE clause
GoalsAfterDelete_NoWhere(id) == {}

\* DELETE FROM goals WHERE id=%s
GoalsAfterDelete(id) == {g \in goals : g.id # id}

\* Delete Goal
DeleteGoal(s) ==
  /\ sess[s].page = "Goals"
  /\ \E sel \in sess[s].goals, confirm \in ConfirmInputs, up \in BOOLEAN :
       IF ~Confirmed(confirm)
       THEN /\ last' = OutcomeOf("delete_goal", "Type DELETE to confirm.", sel, 0, 0)
            /\ UNCHANGED store
       ELSE IF run_query_write(up, TRUE)
       THEN /\ goals' = GoalsAfterDelete(sel)
            /\ transactions' = OnDeleteSetNull(transactions, GoalsAfterDelete(sel))
            /\ last' = Attempted(OutcomeOf("delete_goal", "Goal deleted.", sel, 0, 0), up)
            /\ UNCHANGED <<accounts, budgets, nextId, budget_alerts>>
       ELSE /\ last' = Attempted(OutcomeOf("delete_goal", "Delete failed.", sel, 0, 0), up)
            /\ UNCHANGED store
  /\ EndRun(s)
  /\ UNCHANGED now

InitGoals ==
  /\ accounts = SeedAccounts
  /\ transactions = {}
  /\ budgets = {}
  /\ goals = {}
  /\ nextId = [accounts |-> 2, transactions |-> 1, budgets |-> 1, goals |-> 1]
  /\ now = StartOfTime
  /\ budget_alerts = {}
  /\ sess = [s \in Sessions |-> NoPage]
  /\ shown = {}
  /\ last = Outcome("init", "")

NextGoals ==
  \/ Tick
  \/ \E s \in Sessions : LoadGoals(s)
  \/ \E s \in Sessions : CreateGoal(s)
  \/ \E s \in Sessions : Contribute(s)
  \/ \E s \in Sessions : SaveGoal(s)
  \/ \E s \in Sessions : DeleteGoal(s)

SpecGoals == InitGoals /\ [][NextGoals]_vars

(***************************************************************************)
(* Budgets page: forms (pages/Budgets.py)                                  *)
(***************************************************************************)
CategoryInputs == {" ", "Groceries"}

\* the Create input has min_value 0; the Update Limit input has no minimum
LimitInputs == {0, 300}

NewLimitInputs == {0 - 100, 0, 500}

StartDateInputs == {MkDate(2024, 3, 4)}

\* UNIQUE (user_id, category, period, start_date)
BudgetKeyFree(uid, cat, period, start) ==
  ~\E b \in budgets :
     /\ b.user_id = uid /\ b.category = cat
     /\ b.period = period /\ b.start_date = start

\* Create Budget
CreateBudget(s) ==
  /\ sess[s].page = "Budgets"
  /\ \E category \in CategoryInputs, period \in PERIODS, limit \in LimitInputs,
        start \in StartDateInputs, up \in BOOLEAN :
       IF Strip(category) = ""
       THEN /\ last' = Submitted(OutcomeOf("create_budget", "Please enter a category.", 0, 0, limit),
                                <<Strip(category), period, start>>)
            /\ UNCHANGED store
       ELSE IF limit <= 0
       THEN /\ last' = Submitted(OutcomeOf("create_budget", "Budget limit must be greater than 0.", 0, 0, limit),
                                <<Strip(category), period, start>>)
            /\ UNCHANGED store
       ELSE /\ BudgetKeyFree(USER_ID, Strip(category), period, start)
                 => AutoId("budgets") <= MaxBudgetId
            /\ IF run_query_write(up, BudgetKeyFree(USER_ID, Strip(category), period, start))
               THEN /\ budgets' = budgets \cup
                         {BudgetRow(AutoId("budgets"), USER_ID, Strip(category), period, limit, start)}
                    /\ nextId' = Bump("budgets")
                    /\ last' = Submitted(OutcomeOf("create_budget", "Budget created.", AutoId("budgets"), 0, limit),
                                        <<Strip(category), period, start>>)
                    /\ UNCHANGED <<accounts, transactions, goals, budget_alerts>>
               ELSE /\ last' = Submitted(OutcomeOf("create_budget", "Could not create budget.", 0, 0, limit),
                                <<Strip(category), period, start>>)
                    /\ UNCHANGED store
  /\ EndRun(s)
  /\ UNCHANGED now

\* UPDATE budgets SET limit_amount=%s WHERE id=%s
BudgetsAfterSave(id, limit) ==
  {IF b.id = id THEN [b EXCEPT !.limit_amount = limit] ELSE b : b \in budgets}

\* Save Limit
SaveLimit(s) ==
  /\ sess[s].page = "Budgets"
  /\ \E sel \in sess[s].budgets, new_limit \in NewLimitInputs, up \in BOOLEAN :
       IF run_query_write(up, TRUE)
       THEN /\ budgets' = BudgetsAfterSave(sel, new_limit)
            /\ last' = OutcomeOf("save_limit", "Limit updated.", sel, 0, new_limit)
            /\ UNCHANGED <<accounts, transactions, goals, nextId, budget_alerts>>
       ELSE /\ last' = OutcomeOf("save_limit", "Update failed.", sel, 0, new_limit)
            /\ UNCHANGED store
  /\ EndRun(s)
  /\ UNCHANGED now

\* DELETE FROM budgets WHERE id=%s
BudgetsAfterDelete(id) == {b \in budgets : b.id # id}

\* the alerts of a deleted budget: removed with it, as the page announces
\* ("This will remove the budget and its alerts."), or left in their table,
\* as the data model has it (append-only); the schema decides
AlertsAfterBudgetDelete(budgetsLeft) ==
  {budget_alerts,
   {ba \in budget_alerts : \E b \in budgetsLeft : b.id = ba.budget_id}}

\* Delete Budget
DeleteBudget(s) ==
  /\ sess[s].page = "Budgets"
  /\ \E sel \in sess[s].budgets, confirm \in ConfirmInputs, up \in BOOLEAN :
       IF ~Confirmed(confirm)
       THEN /\ last' = OutcomeOf("delete_budget", "Type DELETE to confirm.", sel, 0, 0)
            /\ UNCHANGED store
       ELSE IF run_query_write(up, TRUE)
       THEN /\ budgets' = BudgetsAfterDelete(sel)
            /\ budget_alerts' \in AlertsAfterBudgetDelete(BudgetsAfterDelete(sel))
            /\ last' = OutcomeOf("delete_budget", "Budget deleted.", sel, 0, 0)
            /\ UNCHANGED <<accounts, transactions, goals, nextId>>
       ELSE /\ last' = OutcomeOf("delete_budget", "Delete failed.", sel, 0, 0)
            /\ UNCHANGED store
  /\ EndRun(s)
  /\ UNCHANGED now

\* LIMIT 50
AlertLimit == 50

\* FROM budget_alerts ba JOIN budgets b ON b.id = ba.budget_id
\* WHERE ba.user_id = uid
AlertsJoin(uid) ==
  {[id |-> ba.id, category |-> b.category, period |-> b.period, level |-> ba.level,
    message |-> ba.message, created_at |-> ba.created_at] :
     <<ba, b>> \in {x \in budget_alerts \X budgets :
                       x[1].user_id = uid /\ x[2].id = x[1].budget_id}}

\* ORDER BY ba.created_at DESC LIMIT 50: the sequences the store can return
AlertsQuery(uid) ==
  LET rows == AlertsJoin(uid)
      n    == Cardinality(rows)
  IN  {SubSeq(sq, 1, IF n < AlertLimit THEN n ELSE AlertLimit) :
         sq \in {q \in [1..n -> rows] :
                   /\ \A i \in 1..n, j \in 1..n : i # j => q[i] # q[j]
                   /\ \A i \in 1..n, j \in 1..n :
                        i < j => q[i].created_at >= q[j].created_at}}

\* a run of the Budgets script to its end: the budgets query, then the
\* alerts feed
LoadAlerts(s) ==
  \E up \in BOOLEAN, up2 \in BOOLEAN :
    LET df == BudgetsFrame(run_query_fetch(up, BudgetsQuery(USER_ID)))
    IN  \E alerts \in (IF up2 THEN AlertsQuery(USER_ID) ELSE {<<>>}) :
          /\ sess' = [sess EXCEPT ![s] =
                        [NoPage EXCEPT !.page = "Budgets", !.budgets = Ids(df)]]
          /\ shown' = alerts
          /\ last' = Answered(Outcome("load_alerts",
                                 IF alerts = <<>> THEN "No alerts yet." ELSE "table"),
                               <<up, up2>>)
          /\ UNCHANGED <<store, now>>

InitBudgets ==
  /\ accounts = SeedAccounts
  /\ transactions =
       {TxRow(1, USER_ID, 1, 150, "debit", "Groceries", NoText, NULL,
              MkTs(MkDate(2024, 3, 4), 0))}
  /\ budgets = {}
  /\ goals = {}
  /\ nextId = [accounts |-> 2, transactions |-> 2, budgets |-> 1, goals |-> 1]
  /\ now = StartOfTime
  /\ budget_alerts = {}
  /\ sess = [s \in Sessions |-> NoPage]
  /\ shown = {}
  /\ last = Outcome("init", "")

NextBudgets ==
  \/ \E s \in Sessions : LoadBudgets(s)
  \/ \E s \in Sessions : CreateBudget(s)
  \/ \E s \in Sessions : SaveLimit(s)
  \/ \E s \in Sessions : DeleteBudget(s)

SpecBudgets == InitBudgets /\ [][NextBudgets]_vars

(***************************************************************************)
(* Accounts page (pages/Accounts.py)                                       *)
(***************************************************************************)
MaxAccountId == 3

\* SELECT id, name, type, balance, low_balance_threshold, created_at
\* FROM accounts ORDER BY id
AccountsQuery ==
  {[id |-> a.id, name |-> a.name, balance |-> a.balance,
    low_balance_threshold |-> a.low_balance_threshold] : a \in accounts}

\* a run of the Accounts script up to the table
LoadAccounts(s) ==
  \E up \in BOOLEAN :
    LET df == run_query_fetch(up, AccountsQuery)
    IN  /\ sess' = [sess EXCEPT ![s] = [NoPage EXCEPT !.page = "Accounts", !.accounts = Ids(df)]]
        /\ shown' = df
        /\ last' = Answered(Outcome("load_accounts",
                               IF df = {} THEN "No accounts yet." ELSE "table"), <<up>>)
        /\ UNCHANGED <<store, now>>

AccountNameInputs == {" ", "Cash"}

\* the balance and threshold inputs have no minimum
BalanceInputs == {0 - 50, 500}

ThresholdInputs == {1000}

\* Create Account
AddAccount(s) ==
  /\ sess[s].page = "Accounts"
  /\ \E name \in AccountNameInputs, start_balance \in BalanceInputs,
        low_thresh \in ThresholdInputs, up \in BOOLEAN :
       IF Strip(name) = ""
       THEN /\ last' = OutcomeOf("add_account", "Please enter an account name.", 0, 0, start_balance)
            /\ UNCHANGED store
       ELSE /\ AutoId("accounts") <= MaxAccountId
            /\ IF run_query_write(up, TRUE)
               THEN /\ accounts' = accounts \cup
                         {AccountRow(AutoId("accounts"), 1, Strip(name), start_balance, low_thresh)}
                    /\ nextId' = Bump("accounts")
                    /\ last' = OutcomeOf("add_account", "Account created.", AutoId("accounts"), 0, start_balance)
                    /\ UNCHANGED <<transactions, budgets, goals, budget_alerts>>
               ELSE /\ last' = OutcomeOf("add_account", "Could not create account.", 0, 0, start_balance)
                    /\ UNCHANGED store
  /\ EndRun(s)
  /\ UNCHANGED now

\* variant: the UPDATE also sets balance to the threshold
AccountsAfterSave_WithBalance(id, name, thresh) ==
  {IF a.id = id
   THEN [a EXCEPT !.name = name, !.low_balance_threshold = thresh, !.balance = thresh]
   ELSE a : a \in accounts}

\* UPDATE accounts SET name=%s, low_balance_threshold=%s WHERE id=%s
AccountsAfterSave(id, name, thresh) ==
  {IF a.id = id THEN [a EXCEPT !.name = name, !.low_balance_threshold = thresh] ELSE a :
     a \in accounts}

\* Save Changes
SaveAccount(s) ==
  /\ sess[s].page = "Accounts"
  /\ \E sel \in sess[s].accounts, new_name \in AccountNameInputs,
        new_thresh \in ThresholdInputs, up \in BOOLEAN :
       IF run_query_write(up, TRUE)
       THEN /\ accounts' = AccountsAfterSave(sel, Strip(new_name), new_thresh)
            /\ last' = OutcomeOf("save_account", "Account updated.", sel, 0, new_thresh)
            /\ UNCHANGED <<transactions, budgets, goals, nextId, budget_alerts>>
       ELSE /\ last' = OutcomeOf("save_account", "Update failed.", sel, 0, new_thresh)
            /\ UNCHANGED store
  /\ EndRun(s)
  /\ UNCHANGED now

\* UPDATE accounts SET balance=%s WHERE id=%s
AccountsAfterSetBalance(id, bal) ==
  {IF a.id = id THEN [a EXCEPT !.balance = bal] ELSE a : a \in accounts}

\* Set Balance
SetBalance(s) ==
  /\ sess[s].page = "Accounts"
  /\ \E sel \in sess[s].accounts, new_bal \in BalanceInputs, up \in BOOLEAN :
       IF run_query_write(up, TRUE)
       THEN /\ accounts' = AccountsAfterSetBalance(sel, new_bal)
            /\ last' = OutcomeOf("set_balance", "Balance updated.", sel, 0, new_bal)
            /\ UNCHANGED <<transactions, budgets, goals, nextId, budget_alerts>>
       ELSE /\ last' = OutcomeOf("set_balance", "Balance update failed.", sel, 0, new_bal)
            /\ UNCHANGED store
  /\ EndRun(s)
  /\ UNCHANGED now

\* variant: the DELETE takes every account up to the selected id
AccountsAfterDelete_UpTo(id) == {a \in accounts : a.id > id}

\* DELETE FROM accounts WHERE id=%s
AccountsAfterDelete(id) == {a \in accounts : a.id # id}

\* ON DELETE CASCADE of transactions.account_id: the rows that referenced a
\* deleted account go with it
OnDeleteCascade(txs, accountsLeft) ==
  {t \in txs : \E a \in accountsLeft : a.id = t.account_id}

\* Delete Account
DeleteAccount(s) ==
  /\ sess[s].page = "Accounts"
  /\ \E sel \in sess[s].accounts, confirm \in ConfirmInputs, up \in BOOLEAN :
       IF ~Confirmed(confirm)
       THEN /\ last' = OutcomeOf("delete_account", "Type DELETE to confirm.", sel, 0, 0)
            /\ UNCHANGED store
       ELSE IF run_query_write(up, TRUE)
       THEN /\ accounts' = AccountsAfterDelete(sel)
            /\ transactions' = OnDeleteCascade(transactions, AccountsAfterDelete(sel))
            /\ last' = OutcomeOf("delete_account", "Account deleted.", sel, 0, 0)
            /\ UNCHANGED <<budgets, goals, nextId, budget_alerts>>
       ELSE /\ last' = OutcomeOf("delete_account", "Delete failed.", sel, 0, 0)
            /\ UNCHANGED store
  /\ EndRun(s)
  /\ UNCHANGED now

(***************************************************************************)
(* Transactions page (pages/Transactions.py)                               *)
(***************************************************************************)
\* the texts of the model, character by character
Chars(text) ==
  CASE text = "" -> <<>>
    [] text = "Foo" -> <<"F", "o", "o">>
    [] text = "Bar" -> <<"B", "a", "r">>
    [] text = "oo" -> <<"o", "o">>
    [] text = "F_o" -> <<"F", "_", "o">>
    [] text = "Bill" -> <<"B", "i", "l", "l">>
    [] text = "Bills" -> <<"B", "i", "l", "l", "s">>
    [] text = "Other" -> <<"O", "t", "h", "e", "r">>
    [] text = "Salary" -> <<"S", "a", "l", "a", "r", "y">>
    [] text = "Groceries" -> <<"G", "r", "o", "c", "e", "r", "i", "e", "s">>
    [] text = "Goal Savings" ->
         <<"G", "o", "a", "l", " ", "S", "a", "v", "i", "n", "g", "s">>

RECURSIVE LikeMatch(_, _)
\* text LIKE pattern: % stands for any run of characters, _ for any one
LikeMatch(pattern, text) ==
  IF pattern = <<>> THEN text = <<>>
  ELSE IF Head(pattern) = "%"
  THEN LikeMatch(Tail(pattern), text)
       \/ (text # <<>> /\ LikeMatch(pattern, Tail(text)))
  ELSE /\ text # <<>>
       /\ Head(pattern) = "_" \/ Head(pattern) = Head(text)
       /\ LikeMatch(Tail(pattern), Tail(text))

\* column LIKE f"%{query}%" (no row for a NULL column)
Like(column, query) ==
  column # NoText /\ LikeMatch(<<"%">> \o Chars(query) \o <<"%">>, Chars(column))

\* LIMIT 500
SearchLimit == 500

\* the WHERE clause built from the filters f
SearchWhere(t, f) ==
  /\ MkTs(f.date_from, 0) <= t.ts /\ t.ts <= MkTs(f.date_to, SecondsPerDay - 1)
  /\ f.account_filter # {} => t.account_id \in f.account_filter
  /\ (f.type_filter # {} /\ Cardinality(f.type_filter) < Cardinality(TX_TYPES))
       => t.tx_type \in f.type_filter
  /\ Strip(f.category_query) # "" => Like(t.category, Strip(f.category_query))
  /\ Strip(f.merchant_query) # "" => Like(t.merchant, Strip(f.merchant_query))

\* SELECT id, ts, account_id, tx_type, amount, category, merchant, notes
SearchRow(t) ==
  [id |-> t.id, ts |-> t.ts, account_id |-> t.account_id, tx_type |-> t.tx_type,
   amount |-> t.amount, category |-> t.category, merchant |-> t.merchant,
   notes |-> t.notes]

\* the ids of the rows that share their ts with another row
TiedIds(rows) ==
  {r.id : r \in {x \in rows : \E y \in rows : y.ts = x.ts /\ y.id # x.id}}

\* the orders the store can give to rows of one ts
TieRanks(rows) ==
  LET ids == TiedIds(rows)
  IN  {f \in [ids -> 1..Cardinality(ids)] : \A a \in ids, b \in ids : a # b => f[a] # f[b]}

\* ORDER BY ts DESC, rows of one ts by rank: the place of r among rows
Place(rows, rank, r) ==
  1 + Cardinality({x \in rows :
                     x.ts > r.ts \/ (x.ts = r.ts /\ x.id # r.id /\ rank[x.id] < rank[r.id])})

\* the rows in that order
Sorted(rows, rank) ==
  LET placed == {<<Place(rows, rank, r), r>> : r \in rows}
  IN  [i \in 1..Cardinality(rows) |-> (CHOOSE p \in placed : p[1] = i)[2]]

\* ORDER BY ts DESC LIMIT n: the sequences the store can return (rows of
\* one ts come in any order)
OrderByTsDesc(rows, n) ==
  {SubSeq(Sorted(rows, rank), 1, IF Cardinality(rows) < n THEN Cardinality(rows) ELSE n) :
     rank \in TieRanks(rows)}

\* the search query
SearchQuery(f) ==
  OrderByTsDesc({SearchRow(t) : t \in {x \in transactions : SearchWhere(x, f)}},
                SearchLimit)

\* the rows of a frame
Rows(sq) == {sq[i] : i \in DOMAIN sq}

\* the filter widgets other than the account multiselect: the defaults (all
\* types, first of the month to today, no text), and changes to them
DefaultFilters ==
  LET today == DateOfTs(now)
  IN  [type_filter |-> TX_TYPES, date_from |-> MkDate(YearOf(today), MonthOf(today), 1),
       date_to |-> today, category_query |-> "", merchant_query |-> ""]

FilterInputs ==
  LET today == DateOfTs(now)
      dflt  == DefaultFilters
  IN  {dflt,
       [dflt EXCEPT !.type_filter = {}],
       [dflt EXCEPT !.type_filter = {"debit"}],
       [dflt EXCEPT !.type_filter = {"credit"}, !.date_to = today - 1],
       [dflt EXCEPT !.date_from = today],
       [dflt EXCEPT !.date_from = @ - 1],
       [dflt EXCEPT !.date_to = today - 1],
       [dflt EXCEPT !.date_from = today, !.date_to = today - 1],
       [dflt EXCEPT !.category_query = "Bill"],
       [dflt EXCEPT !.category_query = " "],
       [dflt EXCEPT !.merchant_query = "oo"],
       [dflt EXCEPT !.merchant_query = "F_o"],
       [dflt EXCEPT !.merchant_query = "oo", !.type_filter = {"debit"},
                    !.category_query = "Bill"]}

\* the account multiselect: every account (the default), none, or the first
AccountFilters(ids) ==
  {ids, {}} \cup {{i} : i \in {x \in ids : \A y \in ids : x <= y}}

\* the columns of the results the edit forms go by
Picks(rows) == {[id |-> r.id, ts |-> r.ts] : r \in rows}

\* a run of the Transactions script up to the results: the accounts query,
\* then the search with the widgets set as in filters (narrowed: the account
\* multiselect is changed too)
RunTransactions(s, filters, narrowed) ==
  \E up \in BOOLEAN, up2 \in BOOLEAN :
    LET acc == run_query_fetch(up, AccountNamesQuery) IN
    IF acc = {}
    THEN /\ sess' = [sess EXCEPT ![s] = NoPage]
         /\ shown' = <<>>
         /\ last' = Answered(Outcome("load_transactions", "No accounts found."), <<up>>)
         /\ UNCHANGED <<store, now>>
    ELSE \E f0 \in filters,
            account_filter \in (IF narrowed THEN AccountFilters(Ids(acc)) ELSE {Ids(acc)}) :
           LET f == [type_filter |-> f0.type_filter, date_from |-> f0.date_from,
                     date_to |-> f0.date_to, category_query |-> f0.category_query,
                     merchant_query |-> f0.merchant_query,
                     account_filter |-> account_filter]
           IN  \E tx_df \in (IF up2 THEN SearchQuery(f) ELSE {<<>>}) :
                 /\ sess' = [sess EXCEPT ![s] =
                               [NoPage EXCEPT !.page = "Transactions",
                                              !.accounts = Ids(acc),
                                              !.txs = Picks(Rows(tx_df))]]
                 /\ shown' = tx_df
                 /\ last' = Answered(Outcome("load_transactions",
                                        IF tx_df = <<>>
                                        THEN "No transactions match your filters."
                                        ELSE "table"), <<up, up2, f>>)
                 /\ UNCHANGED <<store, now>>

\* the page as it opens: every widget at its default
OpenTransactions(s) == RunTransactions(s, {DefaultFilters}, FALSE)

\* the page after the filter widgets were changed
LoadTransactions(s) == RunTransactions(s, FilterInputs, TRUE)

\* the Amount input of Add Transaction has min_value 0; the one of the
\* edit form has no minimum
AmountInputs == {0, 3}

NewAmountInputs == {7}

MerchantInputs == {" "}

NewMerchantInputs == {"Foo"}

NewCategoryInputs == {" ", "Groceries"}

\* the row of the INSERT of Add Transaction
AddedRow(account_id, amount, tx_type, category, merchant, notes, ts) ==
  [TxRow(AutoId("transactions"), 1, account_id, amount, tx_type, category,
         TextOrNone(merchant), NULL, ts)
     EXCEPT !.notes = TextOrNone(notes)]

\* Add Transaction (date and time left at today and now)
AddTransaction(s) ==
  /\ sess[s].page = "Transactions"
  /\ \E account_id \in sess[s].accounts, tx_type \in TX_TYPES, amount \in AmountInputs,
        category \in {"Groceries"}, merchant \in MerchantInputs, notes \in NotesInputs,
        up \in BOOLEAN :
       IF amount <= 0
       THEN /\ last' = OutcomeOf("add_transaction", "Amount must be greater than 0.",
                                 0, account_id, amount)
            /\ UNCHANGED store
       ELSE /\ AutoId("transactions") <= MaxTxId
            /\ IF run_query_write(up, AccountExists(account_id) /\ AmountOk(amount))
               THEN /\ transactions' = transactions \cup
                         {AddedRow(account_id, amount, tx_type, category, merchant, notes, now)}
                    /\ nextId' = Bump("transactions")
                    /\ last' = Attempted(OutcomeOf("add_transaction", "Transaction added.",
                                         AutoId("transactions"), account_id, amount), up)
                    /\ UNCHANGED <<accounts, budgets, goals, budget_alerts>>
               ELSE /\ last' = Attempted(OutcomeOf("add_transaction", "Failed to add transaction.",
                                         0, account_id, amount), up)
                    /\ UNCHANGED store
  /\ EndRun(s)
  /\ UNCHANGED now

\* x.strip() or None
StripOrNone(text) == IF Strip(text) = "" THEN NoText ELSE Strip(text)

\* UPDATE transactions SET account_id, amount, tx_type, category, merchant,
\* notes, ts WHERE id
TransactionsAfterUpdate(id, account_id, amount, tx_type, category, merchant, notes, ts) ==
  {IF t.id = id
   THEN [t EXCEPT !.account_id = account_id, !.amount = amount, !.tx_type = tx_type,
                  !.category = category, !.merchant = merchant, !.notes = notes,
                  !.ts = ts]
   ELSE t : t \in transactions}

\* Update Transaction (date and time left as the frame shows them)
UpdateTransaction(s) ==
  /\ sess[s].page = "Transactions"
  /\ \E row \in sess[s].txs, new_account \in sess[s].accounts, new_type \in TX_TYPES,
        new_amount \in NewAmountInputs, new_category \in NewCategoryInputs,
        new_merchant \in NewMerchantInputs, new_notes \in NotesInputs, up \in BOOLEAN :
       IF run_query_write(up, ((\E t \in transactions : t.id = row.id)
                                 => AccountExists(new_account) /\ AmountOk(new_amount)))
       THEN /\ transactions' =
                 TransactionsAfterUpdate(row.id, new_account, new_amount, new_type,
                    IF Strip(new_category) = "" THEN "Other" ELSE Strip(new_category),
                    StripOrNone(new_merchant), StripOrNone(new_notes), row.ts)
            /\ last' = Attempted(OutcomeOf("update_transaction", "Transaction updated.",
                                 row.id, new_account, new_amount), up)
            /\ UNCHANGED <<accounts, budgets, goals, nextId, budget_alerts>>
       ELSE /\ last' = Attempted(OutcomeOf("update_transaction", "Update failed.",
                                 row.id, new_account, new_amount), up)
            /\ UNCHANGED store
  /\ EndRun(s)
  /\ UNCHANGED now

\* DELETE FROM transactions WHERE id=%s
TransactionsAfterDelete(id) == {t \in transactions : t.id # id}

\* Delete Transaction
DeleteTransaction(s) ==
  /\ sess[s].page = "Transactions"
  /\ \E row \in sess[s].txs, danger \in ConfirmInputs, up \in BOOLEAN :
       IF ~Confirmed(danger)
       THEN /\ last' = OutcomeOf("delete_transaction", "Type DELETE to confirm.", row.id, 0, 0)
            /\ UNCHANGED store
       ELSE IF run_query_write(up, TRUE)
       THEN /\ transactions' = TransactionsAfterDelete(row.id)
            /\ last' = Attempted(OutcomeOf("delete_transaction", "Transaction deleted.", row.id, 0, 0), up)
            /\ UNCHANGED <<accounts, budgets, goals, nextId, budget_alerts>>
       ELSE /\ last' = Attempted(OutcomeOf("delete_transaction", "Delete failed.", row.id, 0, 0), up)
            /\ UNCHANGED store
  /\ EndRun(s)
  /\ UNCHANGED now

(***************************************************************************)
(* Analytics page (pages/Analytics.py)                                     *)
(***************************************************************************)
\* CURDATE()
CURDATE == DateOfTs(now)

\* DATE_SUB(d, INTERVAL k DAY)
DATE_SUB(d, k) == d - k

\* n / d rounded to the nearest integer, ties away from zero (DECIMAL
\* division of the store; n >= 0, d > 0)
RoundHalfUp(n, d) == (2 * n + d) \div (2 * d)

\* AVG(amount): a DECIMAL with four more decimals than amount, so the mean in
\* millionths (amounts are in hundredths)
AvgAmount(rows) == RoundHalfUp(10000 * SumAmount(rows), Cardinality(rows))

MinOf(S) == CHOOSE x \in S : \A y \in S : x <= y

MaxOf(S) == CHOOSE x \in S : \A y \in S : x >= y

\* variant: credits are grouped as well
RecurringWhere_AnyType(t, uid, days) ==
  /\ t.user_id = uid
  /\ t.merchant # NoText
  /\ t.ts >= DateToTs(DATE_SUB(CURDATE, days))

\* the WHERE clause of the recurring query
RecurringWhere(t, uid, days) ==
  /\ t.user_id = uid
  /\ t.tx_type = "debit"
  /\ t.merchant # NoText
  /\ t.ts >= DateToTs(DATE_SUB(CURDATE, days))

\* GROUP BY merchant, category ... HAVING times >= 3
RecurringGroups(uid, days) ==
  LET rows == {t \in transactions : RecurringWhere(t, uid, days)}
      keys == {<<t.merchant, t.category>> : t \in rows}
      grp(k) == {t \in rows : t.merchant = k[1] /\ t.category = k[2]}
  IN  {[merchant |-> k[1], category |-> k[2],
        times |-> Cardinality(grp(k)),
        avg_amount |-> AvgAmount(grp(k)),
        first_seen |-> MinOf({DateOfTs(t.ts) : t \in grp(k)}),
        last_seen |-> MaxOf({DateOfTs(t.ts) : t \in grp(k)})] :
         k \in {x \in keys : Cardinality(grp(x)) >= 3}}

\* ORDER BY times DESC, avg_amount DESC: a comes strictly before b
RecurringBefore(a, b) ==
  a.times > b.times \/ (a.times = b.times /\ a.avg_amount > b.avg_amount)

\* the orders in which the store can return rows under that ORDER BY (rows
\* that tie come in any order)
RecurringOrders(rows) ==
  LET n == Cardinality(rows)
  IN  {sq \in [1..n -> rows] :
         /\ \A i \in 1..n, j \in 1..n : i # j => sq[i] # sq[j]
         /\ \A i \in 1..n, j \in 1..n : i < j => ~RecurringBefore(sq[j], sq[i])}

\* CASE WHEN tx_type='debit' THEN amount ELSE 0 END
DebitAmount(t) == IF t.tx_type = "debit" THEN t.amount ELSE 0

RECURSIVE SumDebit(_)
\* SUM(CASE WHEN tx_type='debit' ...) over the rows of one group
SumDebit(rows) ==
  IF rows = {} THEN 0
  ELSE LET r == CHOOSE x \in rows : TRUE
       IN  DebitAmount(r) + SumDebit(rows \ {r})

\* the avg_daily query: one row per DATE(ts) that has a transaction of the
\* owner on or after CURDATE() - days
AvgDailyQuery(uid, days) ==
  LET rows == {t \in transactions :
                 t.user_id = uid /\ t.ts >= DateToTs(DATE_SUB(CURDATE, days))}
  IN  {[d |-> day, spent |-> SumDebit({t \in rows : DateOfTs(t.ts) = day})] :
         day \in {DateOfTs(t.ts) : t \in rows}}

RECURSIVE SumSpent(_)
\* Series.sum() of the spent column
SumSpent(rows) ==
  IF rows = {} THEN 0
  ELSE LET r == CHOOSE x \in rows : TRUE
       IN  r.spent + SumSpent(rows \ {r})

\* variant: the mean taken over the days of the window
MeanSpent_OverWindow(rows, days) == [num |-> SumSpent(rows), den |-> days]

\* avg_daily["spent"].mean() of a non-empty frame, as the fraction num / den
\* (days is the length of the window the frame was queried for)
MeanSpent(rows, days) == [num |-> SumSpent(rows), den |-> Cardinality(rows)]

\* the slider "Days window" (7 to 180, default 90)
DaysBackInputs == {7, 90}

\* a run of the Analytics script: the avg_daily frame with its caption (none
\* when the frame is empty) and the recurring table.  The page has no form,
\* so the run ends with the rendering.
LoadAnalytics(s) ==
  \E days_back \in DaysBackInputs, up \in BOOLEAN, up2 \in BOOLEAN :
    LET avg_daily == run_query_fetch(up, AvgDailyQuery(USER_ID, days_back))
        groups    == run_query_fetch(up2, RecurringGroups(USER_ID, days_back))
    IN  \E recurring \in RecurringOrders(groups) :
          /\ shown' = [avg_daily |-> avg_daily,
                       average   |-> IF avg_daily = {} THEN "none"
                                     ELSE MeanSpent(avg_daily, days_back),
                       recurring |-> recurring]
          /\ last' = Answered(OutcomeOf("load_analytics",
                                 IF groups = {} THEN "No likely recurring payments detected in this window."
                                 ELSE "table", 0, 0, days_back), <<up, up2>>)
          /\ sess' = [sess EXCEPT ![s] = NoPage]
          /\ UNCHANGED <<store, now>>

(***************************************************************************)
(* Dashboard (Home.py)                                                     *)
(***************************************************************************)
\* INTERVAL 30 DAY of the dashboard queries
HomeDays == 30

\* a run of the dashboard script: avg_daily_spend, 0.0 when the frame is empty
LoadHome(s) ==
  \E up \in BOOLEAN :
    LET avg_daily == run_query_fetch(up, AvgDailyQuery(USER_ID, HomeDays))
    IN  /\ shown' = [avg_daily |-> avg_daily,
                     average   |-> IF avg_daily = {} THEN [num |-> 0, den |-> 1]
                                   ELSE MeanSpent(avg_daily, HomeDays)]
        /\ last' = Answered(OutcomeOf("load_home", "dashboard", 0, 0, HomeDays), <<up>>)
        /\ sess' = [sess EXCEPT ![s] = NoPage]
        /\ UNCHANGED <<store, now>>

(***************************************************************************)
(* Shared pulls (utils/queries.py)                                         *)
(***************************************************************************)
\* variant: the groups without HAVING spent > 0
CategoryTotalsGroups_NoHaving(uid) ==
  LET rows   == {t \in transactions : t.user_id = uid}
      grp(c) == {t \in rows : CategoryEq(t.category, c)}
  IN  {[category |-> c, spent |-> SumDebit(grp(c))] : c \in {t.category : t \in rows}}

\* SELECT category, SUM(CASE WHEN tx_type='debit' THEN amount ELSE 0 END) AS
\* spent FROM transactions WHERE user_id=%s GROUP BY category HAVING spent > 0
CategoryTotalsGroups(uid) ==
  LET rows   == {t \in transactions : t.user_id = uid}
      grp(c) == {t \in rows : CategoryEq(t.category, c)}
  IN  {[category |-> c, spent |-> SumDebit(grp(c))] :
         c \in {x \in {t.category : t \in rows} : SumDebit(grp(x)) > 0}}

\* ORDER BY spent DESC LIMIT k: the sequences the store can return (rows of
\* one spent come in any order)
CategoryTotalsOrders(rows, k) ==
  LET n == Cardinality(rows)
  IN  {SubSeq(sq, 1, IF n < k THEN n ELSE k) :
         sq \in {x \in [1..n -> rows] :
                   /\ \A i \in 1..n, j \in 1..n : i # j => x[i] # x[j]
                   /\ \A i \in 1..n, j \in 1..n : i < j => x[i].spent >= x[j].spent}}

\* the frames fetch_category_totals(limit) can return: _df gives the empty
\* frame for a run_query that returned None
fetch_category_totals(up, limit) ==
  IF up THEN CategoryTotalsOrders(CategoryTotalsGroups(USER_ID), limit)
  ELSE {<<>>}

\* the limit argument (default 10)
LimitArgs == {1, 2, 10}

\* a call of fetch_category_totals
FetchCategoryTotals ==
  \E limit \in LimitArgs, up \in BOOLEAN :
    \E frame \in fetch_category_totals(up, limit) :
      /\ shown' = frame
      /\ last' = Answered(OutcomeOf("fetch_category_totals", "frame", 0, 0, limit), <<up>>)
      /\ UNCHANGED <<store, now, sess>>

(***************************************************************************)
(* Stores the reads are checked on.  Every row below can be produced by    *)
(* the pages' own writes (Add / Update Transaction, Create Budget, Save    *)
(* Limit) or belongs to another owner of the shared store.                 *)
(***************************************************************************)
MaxSeedTx == 2

OtherUser == USER_ID + 1

Users == {USER_ID, OtherUser}

StartDateSeeds ==
  {MkDate(2024, 2, 10), MkDate(2024, 3, 4), MkDate(2024, 1, 31),
   MkDate(2023, 12, 25), MkDate(2024, 2, 1), MkDate(2023, 2, 28)}

\* the first day of the month after the one d lies in
FirstOfNextMonth(d) ==
  IF MonthOf(d) = 12 THEN MkDate(YearOf(d) + 1, 1, 1)
  ELSE MkDate(YearOf(d), MonthOf(d) + 1, 1)

\* the window end of the specification: start + 7 days, or the first day of
\* the next month
WindowEnd(period, start) ==
  IF period = "weekly" THEN start + 7 ELSE FirstOfNextMonth(start)

\* instants around the two ends of a window
BoundaryTs(period, start) ==
  {DateToTs(start) - 1, DateToTs(start),
   DateToTs(WindowEnd(period, start)) - 1, DateToTs(WindowEnd(period, start))}

RECURSIVE Pow2(_)
Pow2(n) == IF n = 0 THEN 1 ELSE 2 * Pow2(n - 1)

SeedIds(n) == [accounts |-> 2, transactions |-> n + 1, budgets |-> 2, goals |-> 1]

\* window family: one budget, transactions 1..n that differ in owner,
\* category, type and instant; transaction i has amount 2^(i-1), so a sum
\* tells which transactions it counted
WindowTxSets(period, start, n) ==
  LET one(i) == {TxRow(i, u, 1, Pow2(i - 1), ty, c, NoText, NULL, ts) :
                   u \in Users, ty \in TX_TYPES, c \in {"Groceries", "groceries"},
                   ts \in BoundaryTs(period, start)}
      F == UNION {[1..k -> UNION {one(i) : i \in 1..n}] : k \in 0..n}
  IN  {{f[i] : i \in DOMAIN f} : f \in {g \in F : \A i \in DOMAIN g : g[i].id = i}}

InitWindowFamily ==
  \E period \in PERIODS, start \in StartDateSeeds :
    /\ budgets = {BudgetRow(1, USER_ID, "Groceries", period, 300, start)}
    /\ transactions \in WindowTxSets(period, start, MaxSeedTx)

LimitSeeds == <<3, 1, 32, 0, 0 - 3>>

AmountSeeds == {0, 1, 2, 4}

\* progress family: one weekly budget, limits of every sign, debits inside
\* the window
ProgressTxSets(start, n) ==
  LET F == UNION {[1..k -> AmountSeeds] : k \in 0..n}
  IN  {{TxRow(i, USER_ID, 1, f[i], "debit", "Groceries", NoText, NULL, DateToTs(start)) :
          i \in DOMAIN f} : f \in F}

InitProgressFamily ==
  \E i \in DOMAIN LimitSeeds :
    /\ budgets = {BudgetRow(1, USER_ID, "Groceries", "weekly", LimitSeeds[i], MkDate(2024, 3, 4))}
    /\ transactions \in ProgressTxSets(MkDate(2024, 3, 4), MaxSeedTx)

InitBudgetRead ==
  /\ InitWindowFamily \/ InitProgressFamily
  /\ accounts = SeedAccounts
  /\ goals = {}
  /\ nextId = SeedIds(MaxSeedTx)
  /\ now = DateToTs(MkDate(2024, 3, 5))
  /\ budget_alerts = {}
  /\ sess = [s \in Sessions |-> NoPage]
  /\ shown = {}
  /\ last = Outcome("init", "")

NextBudgetRead == \E s \in Sessions : LoadBudgets(s)

SpecBudgetRead == InitBudgetRead /\ [][NextBudgetRead]_vars

TargetSeeds == <<10, 3, 2, 0, 0 - 3>>

ContributionSeeds == {2, 3}

\* goal family: goal 1 with targets of every sign, with or without a second
\* goal, and transactions that differ in type, tag (an existing goal or
\* none) and amount
GoalTxSets(n, ids) ==
  LET F == UNION {[1..k -> TX_TYPES \X ({NULL} \cup ids) \X ContributionSeeds] : k \in 0..n}
  IN  {{TxRow(i, USER_ID, 1, f[i][3], f[i][1], "Goal Savings", NoText, f[i][2],
              DateToTs(MkDate(2024, 3, 4))) : i \in DOMAIN f} : f \in F}

InitGoalRead ==
  /\ \E i \in DOMAIN TargetSeeds, second \in BOOLEAN :
       goals = {GoalRow(1, USER_ID, "Trip", TargetSeeds[i], MkDate(2024, 12, 31))}
                 \cup (IF second
                       THEN {GoalRow(2, USER_ID, "Laptop", 10, MkDate(2024, 6, 30))}
                       ELSE {})
  /\ transactions \in GoalTxSets(MaxSeedTx, {g.id : g \in goals})
  /\ budgets = {}
  /\ accounts = SeedAccounts
  /\ nextId = [SeedIds(MaxSeedTx) EXCEPT !.goals = 3, !.budgets = 1]
  /\ now = DateToTs(MkDate(2024, 3, 5))
  /\ budget_alerts = {}
  /\ sess = [s \in Sessions |-> NoPage]
  /\ shown = {}
  /\ last = Outcome("init", "")

NextGoalRead == \E s \in Sessions : LoadGoals(s)

SpecGoalRead == InitGoalRead /\ [][NextGoalRead]_vars

\* account family: the owner's first account, a second account of either
\* owner, one weekly budget, one goal, and transactions 1..n in either
\* account: a debit inside the budget's window or a credit (tagged with the
\* goal when it is the owner's); transaction i has amount 2^(i-1)
AccountTxSets(second, n) ==
  LET one(i) ==
        {TxRow(i, USER_ID, 1, Pow2(i - 1), "debit", "Groceries", NoText, NULL,
               DateToTs(MkDate(2024, 3, 4))),
         TxRow(i, USER_ID, 1, Pow2(i - 1), "credit", "Goal Savings", NoText, 1,
               DateToTs(MkDate(2024, 3, 4))),
         TxRow(i, second, 2, Pow2(i - 1), "debit", "Groceries", NoText, NULL,
               DateToTs(MkDate(2024, 3, 4))),
         TxRow(i, second, 2, Pow2(i - 1), "credit", "Goal Savings", NoText,
               IF second = USER_ID THEN 1 ELSE NULL, DateToTs(MkDate(2024, 3, 4)))}
      F == UNION {[1..k -> UNION {one(i) : i \in 1..n}] : k \in 0..n}
  IN  {{f[i] : i \in DOMAIN f} : f \in {g \in F : \A i \in DOMAIN g : g[i].id = i}}

InitAccountDelete ==
  /\ \E second \in Users :
       /\ accounts = SeedAccounts \cup {AccountRow(2, second, "Wallet", 50, 1000)}
       /\ transactions \in AccountTxSets(second, MaxSeedTx)
  /\ budgets = {BudgetRow(1, USER_ID, "Groceries", "weekly", 300, MkDate(2024, 3, 4))}
  /\ goals = {GoalRow(1, USER_ID, "Trip", 10, MkDate(2024, 12, 31))}
  /\ nextId = [accounts |-> 3, transactions |-> MaxSeedTx + 1, budgets |-> 2, goals |-> 2]
  /\ now = StartOfTime
  /\ budget_alerts = {}
  /\ sess = [s \in Sessions |-> NoPage]
  /\ shown = {}
  /\ last = Outcome("init", "")

\* deleting accounts, and the reads of the other pages
NextAccountDelete ==
  \/ \E s \in Sessions : LoadAccounts(s)
  \/ \E s \in Sessions : DeleteAccount(s)
  \/ \E s \in Sessions : LoadBudgets(s)
  \/ \E s \in Sessions : LoadGoals(s)

SpecAccountDelete == InitAccountDelete /\ [][NextAccountDelete]_vars

\* the forms of the Accounts page over a store with an account of each
\* owner and one transaction in each
InitAccounts ==
  /\ accounts = SeedAccounts \cup {AccountRow(2, OtherUser, "Theirs", 50, 1000)}
  /\ transactions =
       {TxRow(1, USER_ID, 1, 1, "debit", "Groceries", NoText, NULL,
              DateToTs(MkDate(2024, 3, 4))),
        TxRow(2, OtherUser, 2, 2, "debit", "Groceries", NoText, NULL,
              DateToTs(MkDate(2024, 3, 4)))}
  /\ budgets = {}
  /\ goals = {}
  /\ nextId = [accounts |-> 3, transactions |-> 3, budgets |-> 1, goals |-> 1]
  /\ now = StartOfTime
  /\ budget_alerts = {}
  /\ sess = [s \in Sessions |-> NoPage]
  /\ shown = {}
  /\ last = Outcome("init", "")

NextAccounts ==
  \/ \E s \in Sessions : LoadAccounts(s)
  \/ \E s \in Sessions : AddAccount(s)
  \/ \E s \in Sessions : SaveAccount(s)
  \/ \E s \in Sessions : SetBalance(s)
  \/ \E s \in Sessions : DeleteAccount(s)

SpecAccounts == InitAccounts /\ [][NextAccounts]_vars

MaxHistoryTx == 7

Today == MkDate(2024, 3, 5)

\* history family: transactions 1..n of the owner's account.  Transaction i
\* has amount i and, unless old, the instant 00:00:00 of day
\* Today - 7 + (i - 1), so transaction 1 lies exactly on the lower end of the
\* 7-day window; an old one lies on Today - 30.  The first two are Foo/Bills
\* debits or differ from one in type, owner, merchant (none), category or
\* age; the later ones are debits of Foo/Bills or Bar/Bills.
HistoryTxSets(n) ==
  LET ts(i)  == DateToTs(Today - 7 + (i - 1))
      old    == DateToTs(Today - 30)
      early(i) ==
        {TxRow(i, USER_ID, 1, i, "debit", "Bills", "Foo", NULL, ts(i)),
         TxRow(i, USER_ID, 1, i, "credit", "Bills", "Foo", NULL, ts(i)),
         TxRow(i, OtherUser, 1, i, "debit", "Bills", "Foo", NULL, ts(i)),
         TxRow(i, USER_ID, 1, i, "debit", "Bills", NoText, NULL, ts(i)),
         TxRow(i, USER_ID, 1, i, "debit", "Other", "Foo", NULL, ts(i)),
         TxRow(i, USER_ID, 1, i, "debit", "Bills", "Foo", NULL, old)}
      late(i) ==
        {TxRow(i, USER_ID, 1, i, "debit", "Bills", "Foo", NULL, ts(i)),
         TxRow(i, USER_ID, 1, i, "debit", "Bills", "Bar", NULL, ts(i))}
      one(i) == IF i <= 2 THEN early(i) ELSE late(i)
      sets[k \in 0..n] ==
        IF k = 0 THEN {{}} ELSE {S \cup {t} : S \in sets[k - 1], t \in one(k)}
  IN  UNION {sets[k] : k \in 0..n}

InitHistory ==
  /\ transactions \in HistoryTxSets(MaxHistoryTx)
  /\ accounts = SeedAccounts
  /\ budgets = {}
  /\ goals = {}
  /\ nextId = [accounts |-> 2, transactions |-> MaxHistoryTx + 1, budgets |-> 1, goals |-> 1]
  /\ now = MkTs(Today, 36000)
  /\ budget_alerts = {}
  /\ sess = [s \in Sessions |-> NoPage]
  /\ shown = {}
  /\ last = Outcome("init", "")

NextHistory ==
  \/ \E s \in Sessions : LoadAnalytics(s)
  \/ \E s \in Sessions : LoadHome(s)

SpecHistory == InitHistory /\ [][NextHistory]_vars

\* transactions changed from two sessions next to the budget and goal reads:
\* one budget whose window holds today and one goal
InitLedger ==
  /\ accounts = SeedAccounts
  /\ transactions = {}
  /\ budgets = {BudgetRow(1, USER_ID, "Groceries", "weekly", 300, MkDate(2024, 3, 4))}
  /\ goals = {GoalRow(1, USER_ID, "Trip", 10, MkDate(2024, 12, 31))}
  /\ nextId = [accounts |-> 2, transactions |-> 1, budgets |-> 2, goals |-> 2]
  /\ now = StartOfTime
  /\ budget_alerts = {}
  /\ sess = [s \in Sessions |-> NoPage]
  /\ shown = {}
  /\ last = Outcome("init", "")

NextLedger ==
  \/ \E s \in Sessions : OpenTransactions(s)
  \/ \E s \in Sessions : AddTransaction(s)
  \/ \E s \in Sessions : UpdateTransaction(s)
  \/ \E s \in Sessions : DeleteTransaction(s)
  \/ \E s \in Sessions : LoadGoals(s)
  \/ \E s \in Sessions : Contribute(s)
  \/ \E s \in Sessions : LoadBudgets(s)

SpecLedger == InitLedger /\ [][NextLedger]_vars

\* the Budgets page over a store that holds alerts: two budgets of the
\* owner with an alert each, and an alert of another owner
InitAlerts ==
  /\ accounts = SeedAccounts
  /\ transactions = {}
  /\ budgets = {BudgetRow(1, USER_ID, "Groceries", "weekly", 300, MkDate(2024, 3, 4)),
                BudgetRow(2, USER_ID, "Bills", "monthly", 300, MkDate(2024, 3, 1)),
                BudgetRow(3, OtherUser, "Bills", "monthly", 300, MkDate(2024, 3, 1))}
  /\ goals = {}
  /\ budget_alerts =
       {AlertRow(1, USER_ID, 1, "warning", "80% of budget used", StartOfTime - 2),
        AlertRow(2, USER_ID, 2, "exceeded", "budget exceeded", StartOfTime - 1),
        AlertRow(3, OtherUser, 3, "warning", "80% of budget used", StartOfTime - 1)}
  /\ nextId = [accounts |-> 2, transactions |-> 1, budgets |-> 4, goals |-> 1]
  /\ now = StartOfTime
  /\ sess = [s \in Sessions |-> NoPage]
  /\ shown = {}
  /\ last = Outcome("init", "")

NextAlerts ==
  \/ \E s \in Sessions : LoadBudgets(s)
  \/ \E s \in Sessions : LoadAlerts(s)
  \/ \E s \in Sessions : SaveLimit(s)
  \/ \E s \in Sessions : DeleteBudget(s)

SpecAlerts == InitAlerts /\ [][NextAlerts]_vars

MaxSearchTx == 2

MaxBulkTx == 501

\* transaction i of a search history has amount i and is one of: a debit of
\* account 1 at the first second of today; a credit of account 2 at the last
\* second of yesterday; a debit without merchant at the last second before
\* the first of the month; a credit at the last second of today; a debit of
\* another owner at the first second of the month
SearchTxSets(n) ==
  LET today == DateOfTs(StartOfTime)
      first == MkDate(YearOf(today), MonthOf(today), 1)
      one(i) ==
        {TxRow(i, USER_ID, 1, i, "debit", "Bills", "Foo", NULL, MkTs(today, 0)),
         TxRow(i, USER_ID, 2, i, "credit", "Groceries", "Bar", NULL,
               MkTs(today - 1, SecondsPerDay - 1)),
         TxRow(i, USER_ID, 1, i, "debit", "Bills", NoText, NULL,
               MkTs(first - 1, SecondsPerDay - 1)),
         TxRow(i, USER_ID, 1, i, "credit", "Other", "Foo", NULL,
               MkTs(today, SecondsPerDay - 1)),
         TxRow(i, OtherUser, 2, i, "debit", "Bills", "Foo", NULL, MkTs(first, 0))}
      sets[k \in 0..n] ==
        IF k = 0 THEN {{}} ELSE {S \cup {t} : S \in sets[k - 1], t \in one(k)}
  IN  UNION {sets[k] : k \in 0..n}

\* n salary credits of account 2 on the day before the first of the month,
\* one second apart, the two oldest in the same second
BulkTx(n) ==
  LET today == DateOfTs(StartOfTime)
      first == MkDate(YearOf(today), MonthOf(today), 1)
  IN  {TxRow(i, USER_ID, 2, i, "credit", "Salary", NoText, NULL,
             MkTs(first - 1, IF i <= 2 THEN 2 ELSE i)) : i \in 1..n}

InitSearch ==
  /\ accounts = SeedAccounts \cup {AccountRow(2, USER_ID, "Wallet", 50, 1000)}
  /\ transactions \in SearchTxSets(MaxSearchTx) \cup {BulkTx(MaxBulkTx)}
  /\ budgets = {}
  /\ goals = {}
  /\ budget_alerts = {}
  /\ nextId = [accounts |-> 3, transactions |-> MaxBulkTx + 1, budgets |-> 1, goals |-> 1]
  /\ now = StartOfTime
  /\ sess = [s \in Sessions |-> NoPage]
  /\ shown = {}
  /\ last = Outcome("init", "")

\* the search is one script run of one browser session
NextSearch == LoadTransactions("A")

SpecSearch == InitSearch /\ [][NextSearch]_vars

MaxCategoryTx == 4

\* category family: transaction i is a debit of amount i in Bills or in
\* Groceries, a credit in Other, a debit of amount 3 in Other, or a debit of
\* another owner in Rent
CategoryTxSets(n) ==
  LET ts(i)  == MkTs(DateOfTs(StartOfTime), i)
      one(i) ==
        {TxRow(i, USER_ID, 1, i, "debit", "Bills", NoText, NULL, ts(i)),
         TxRow(i, USER_ID, 1, i, "debit", "Groceries", NoText, NULL, ts(i)),
         TxRow(i, USER_ID, 1, i, "credit", "Other", NoText, NULL, ts(i)),
         TxRow(i, USER_ID, 1, 3, "debit", "Other", NoText, NULL, ts(i)),
         TxRow(i, OtherUser, 1, i, "debit", "Rent", NoText, NULL, ts(i))}
      sets[k \in 0..n] ==
        IF k = 0 THEN {{}} ELSE {S \cup {t} : S \in sets[k - 1], t \in one(k)}
  IN  UNION {sets[k] : k \in 0..n}

InitCategoryTotals ==
  /\ accounts = SeedAccounts
  /\ transactions \in CategoryTxSets(MaxCategoryTx)
  /\ budgets = {}
  /\ goals = {}
  /\ budget_alerts = {}
  /\ nextId = [accounts |-> 2, transactions |-> MaxCategoryTx + 1, budgets |-> 1, goals |-> 1]
  /\ now = StartOfTime
  /\ sess = [s \in Sessions |-> NoPage]
  /\ shown = {}
  /\ last = Outcome("init", "")

NextCategoryTotals == FetchCategoryTotals

SpecCategoryTotals == InitCategoryTotals /\ [][NextCategoryTotals]_vars

\* the accounts next to the writes of the Transactions and Goals pages: one
\* account with one transaction, one goal, and room for one more account
\* and one more transaction
InitBalance ==
  /\ accounts = SeedAccounts
  /\ transactions =
       {TxRow(1, USER_ID, 1, 3, "debit", "Groceries", NoText, NULL, StartOfTime - 1)}
  /\ budgets = {}
  /\ goals = {GoalRow(1, USER_ID, "Trip", 10, MkDate(2024, 12, 31))}
  /\ budget_alerts = {}
  /\ nextId = [accounts |-> MaxAccountId, transactions |-> MaxTxId, budgets |-> 1, goals |-> 2]
  /\ now = StartOfTime
  /\ sess = [s \in Sessions |-> NoPage]
  /\ shown = {}
  /\ last = Outcome("init", "")

\* the pages are driven from one browser session
NextBalance ==
  \/ LoadAccounts("A")
  \/ AddAccount("A")
  \/ SaveAccount("A")
  \/ SetBalance("A")
  \/ DeleteAccount("A")
  \/ OpenTransactions("A")
  \/ AddTransaction("A")
  \/ UpdateTransaction("A")
  \/ DeleteTransaction("A")
  \/ LoadGoals("A")
  \/ Contribute("A")

SpecBalance == InitBalance /\ [][NextBalance]_vars

\* every read of the pages over a store that holds rows for each of them
InitReads ==
  /\ accounts = SeedAccounts
  /\ transactions =
       {TxRow(1, USER_ID, 1, 3, "debit", "Bills", "Foo", NULL, MkTs(DateOfTs(StartOfTime) - 2, 0)),
        TxRow(2, USER_ID, 1, 3, "debit", "Bills", "Foo", NULL, MkTs(DateOfTs(StartOfTime) - 1, 0)),
        TxRow(3, USER_ID, 1, 4, "debit", "Bills", "Foo", NULL, StartOfTime),
        TxRow(4, USER_ID, 1, 5, "credit", "Goal Savings", NoText, 1, StartOfTime)}
  /\ budgets = {BudgetRow(1, USER_ID, "Bills", "monthly", 300,
                          MkDate(YearOf(DateOfTs(StartOfTime)), MonthOf(DateOfTs(StartOfTime)), 1))}
  /\ goals = {GoalRow(1, USER_ID, "Trip", 10, MkDate(2024, 12, 31))}
  /\ budget_alerts = {AlertRow(1, USER_ID, 1, "warning", "80% of budget used", StartOfTime - 1)}
  /\ nextId = [accounts |-> 2, transactions |-> 5, budgets |-> 2, goals |-> 2]
  /\ now = StartOfTime
  /\ sess = [s \in Sessions |-> NoPage]
  /\ shown = {}
  /\ last = Outcome("init", "")

NextReads ==
  \/ \E s \in Sessions : LoadBudgets(s)
  \/ \E s \in Sessions : LoadAlerts(s)
  \/ \E s \in Sessions : LoadGoals(s)
  \/ \E s \in Sessions : LoadAccounts(s)
  \/ \E s \in Sessions : LoadTransactions(s)
  \/ \E s \in Sessions : LoadAnalytics(s)
  \/ \E s \in Sessions : LoadHome(s)
  \/ FetchCategoryTotals

SpecReads == InitReads /\ [][NextReads]_vars

(***************************************************************************)
(* Claims about the budgets-with-progress read                             *)
(***************************************************************************)
Abs(x) == IF x < 0 THEN 0 - x ELSE x

\* the table a load has just rendered: the store is the one it was read from
FreshBudgets == IF last.op = "load_budgets" THEN shown ELSE {}

BudgetOf(r) == CHOOSE b \in budgets : b.id = r.id

\* the transactions the specification counts for budget b
CountedFor(b) ==
  {t \in transactions :
     /\ t.user_id = b.user_id
     /\ t.tx_type = "debit"
     /\ t.category = b.category
     /\ DateToTs(b.start_date) <= t.ts
     /\ t.ts < DateToTs(WindowEnd(b.period, b.start_date))}

\* C1: the spent of every budget row read is the sum of the amounts of the
\* owner's debits of exactly that category with start <= ts < end, and 0 when
\* there is none
C1_SpentIsWindowSum ==
  \A r \in FreshBudgets :
    /\ \E b \in budgets : b.id = r.id /\ b.user_id = USER_ID
    /\ r.spent = SumAmount(CountedFor(BudgetOf(r)))
    /\ CountedFor(BudgetOf(r)) = {} => r.spent = 0

\* a debit exactly at start is counted while a debit exactly at end, a credit
\* and a debit of another owner are not
C1_Witness ==
  \E r \in FreshBudgets :
    /\ r.spent = 1
    /\ \E t \in transactions :
         t.id = 1 /\ t.ts = DateToTs(r.start_date) /\ t \in CountedFor(BudgetOf(r))
    /\ \E t \in transactions :
         /\ t.id = 2 /\ t.tx_type = "debit" /\ t.user_id = USER_ID
         /\ t.category = r.category /\ t.ts = DateToTs(r.end_date)

\* C2: the end of a monthly budget is the first day of the month after the
\* one start_date lies in (2024-02-10 gives 2024-03-01); unless start_date is
\* the 1st this is not start_date + 1 month
C2_MonthlyEnd ==
  \A r \in FreshBudgets :
    r.period = "monthly" =>
      /\ r.end_date = FirstOfNextMonth(r.start_date)
      /\ DayOf(r.end_date) = 1
      /\ DayOf(r.end_date - 1) = DaysInMonth(YearOf(r.start_date), MonthOf(r.start_date))
      /\ MonthOf(r.end_date - 1) = MonthOf(r.start_date)
      /\ r.start_date = MkDate(2024, 2, 10) => r.end_date = MkDate(2024, 3, 1)
      /\ DayOf(r.start_date) > 1 => r.end_date # AddOneMonth(r.start_date)

C2_Witness ==
  \E r \in FreshBudgets :
    /\ r.period = "monthly"
    /\ r.start_date = MkDate(2024, 1, 31)
    /\ r.end_date = MkDate(2024, 2, 1)
    /\ AddOneMonth(r.start_date) = MkDate(2024, 2, 29)

\* C3: the window of a weekly budget is [start_date, start_date + 7 days)
\* (2024-03-04 gives 2024-03-11), and the end_date shown is the exclusive
\* upper limit of the spent sum
C3_WeeklyWindow ==
  \A r \in FreshBudgets :
    r.period = "weekly" =>
      /\ r.end_date = r.start_date + 7
      /\ r.start_date = MkDate(2024, 3, 4) => r.end_date = MkDate(2024, 3, 11)
      /\ r.spent = SumAmount({t \in transactions :
                      /\ t.user_id = USER_ID /\ t.tx_type = "debit"
                      /\ t.category = r.category
                      /\ t.ts >= DateToTs(r.start_date)
                      /\ t.ts < DateToTs(r.end_date)})

C3_Witness ==
  \E r \in FreshBudgets :
    /\ r.period = "weekly"
    /\ r.start_date = MkDate(2024, 3, 4)
    /\ r.end_date = MkDate(2024, 3, 11)
    /\ r.spent = 2
    /\ \E t \in transactions : t.id = 2 /\ t.ts = DateToTs(r.end_date) - 1
    /\ \E t \in transactions :
         t.id = 1 /\ t.ts = DateToTs(r.end_date) /\ t.tx_type = "debit"
                  /\ t.user_id = USER_ID /\ t.category = r.category

\* C4: remaining is limit_amount - spent, unclamped: negative whenever spent
\* exceeds limit_amount
C4_RemainingExact ==
  \A r \in FreshBudgets :
    /\ r.remaining = BudgetOf(r).limit_amount - SumAmount(CountedFor(BudgetOf(r)))
    /\ r.remaining = r.limit_amount - r.spent
    /\ r.spent > r.limit_amount => r.remaining < 0

C4_Witness ==
  \E r \in FreshBudgets :
    r.limit_amount = 3 /\ r.spent = 5 /\ r.remaining = 0 - 2

\* C5 as stated: progress is 0 for limit 0, otherwise exactly
\* 100 * spent / limit_amount, above 100 whenever spent > limit_amount
\* (progress is in hundredths of a percent)
C5_ProgressExact ==
  \A r \in FreshBudgets :
    /\ r.limit_amount = 0 => r.progress = 0
    /\ r.limit_amount # 0 => r.progress * r.limit_amount = 10000 * r.spent
    /\ r.spent > r.limit_amount /\ r.limit_amount # 0 => r.progress > 10000

\* C5 amended: progress is 0 for limit 0 (any spent), otherwise
\* 100 * spent / limit_amount rounded to two decimals and not clamped: at
\* least 100 whenever spent >= limit_amount > 0
C5_ProgressRounded ==
  \A r \in FreshBudgets :
    /\ r.limit_amount = BudgetOf(r).limit_amount
    /\ r.limit_amount = 0 => r.progress = 0
    /\ r.limit_amount # 0 =>
         2 * Abs(r.progress * r.limit_amount - 10000 * r.spent) <= Abs(r.limit_amount)
    /\ r.spent >= r.limit_amount /\ r.limit_amount > 0 => r.progress >= 10000

\* limit 3, spent 4 shows 133.33; limit 0 with spent 4 shows 0
C5_Witness ==
  /\ \E r \in FreshBudgets : r.limit_amount = 3 /\ r.spent = 4 /\ r.progress = 13333
  /\ last.op = "load_budgets"

(***************************************************************************)
(* Claims about the goals-with-progress read                               *)
(***************************************************************************)
FreshGoals == IF last.op = "load_goals" THEN shown ELSE {}

\* the transactions the specification counts for goal id
CreditsTagged(id) ==
  {t \in transactions : t.tx_type = "credit" /\ t.goal_id = id}

\* C6: contributed of every goal row read is the sum of the amounts of the
\* credit transactions tagged with that goal (0 without any), and a read that
\* returns rows returns every goal of the owner
C6_ContributedIsCreditSum ==
  /\ \A r \in FreshGoals :
       /\ \E g \in goals : g.id = r.id /\ g.user_id = USER_ID
       /\ r.contributed = SumAmount(CreditsTagged(r.id))
       /\ CreditsTagged(r.id) = {} => r.contributed = 0
  /\ FreshGoals # {} =>
       \A g \in goals : g.user_id = USER_ID => \E r \in FreshGoals : r.id = g.id

\* target 10 with credits 2 and 3 shows contributed 5, next to a goal that has
\* no tagged transaction
C6_Witness ==
  /\ \E r \in FreshGoals : r.target_amount = 10 /\ r.id = 1 /\ r.contributed = 5
  /\ \E r \in FreshGoals : r.id = 2 /\ r.contributed = 0 /\ CreditsTagged(2) = {}
  /\ Cardinality(transactions) = 2

\* C7 as stated: remaining is max(0, target - contributed); progress is 0 for
\* target 0 and otherwise exactly 100 * contributed / target
C7_GoalProgressExact ==
  \A r \in FreshGoals :
    /\ r.remaining = (IF r.target_amount - r.contributed > 0
                      THEN r.target_amount - r.contributed ELSE 0)
    /\ r.target_amount = 0 => r.progress = 0
    /\ r.target_amount # 0 => r.progress * r.target_amount = 10000 * r.contributed

\* C7 amended: remaining is max(0, target - contributed), never negative;
\* progress is 0 for target 0 and otherwise 100 * contributed / target rounded
\* to two decimals, with no upper clamp
C7_GoalProgressRounded ==
  \A r \in FreshGoals :
    /\ r.remaining = (IF r.target_amount - r.contributed > 0
                      THEN r.target_amount - r.contributed ELSE 0)
    /\ r.remaining >= 0
    /\ r.target_amount = 0 => r.progress = 0
    /\ r.target_amount # 0 =>
         2 * Abs(r.progress * r.target_amount - 10000 * r.contributed)
           <= Abs(r.target_amount)
    /\ r.contributed >= r.target_amount /\ r.target_amount > 0 => r.progress >= 10000

\* target 2 with contributed 3 shows remaining 0 and progress 150.00
C7_Witness ==
  \E r \in FreshGoals :
    r.target_amount = 2 /\ r.contributed = 3 /\ r.remaining = 0 /\ r.progress = 15000

C9_DeleteGoalKeepsTransactions ==
  [][last'.op = "delete_goal" /\ last'.msg = "Goal deleted." /\ sess' # sess =>
       /\ goals' = {g \in goals : g.id # last'.id}
       /\ transactions' =
            {IF t.goal_id = last'.id THEN [t EXCEPT !.goal_id = NULL] ELSE t :
               t \in transactions}
       /\ Cardinality(transactions') = Cardinality(transactions)
       /\ UNCHANGED <<accounts, budgets>>]_vars

\* goal deleted: one contribution is now untagged, the other goal's
\* contribution is still tagged
C9_Witness ==
  /\ last.op = "delete_goal" /\ last.msg = "Goal deleted."
  /\ ~\E g \in goals : g.id = last.id
  /\ \E t \in transactions : t.goal_id = NULL /\ t.category = "Goal Savings"
  /\ \E t \in transactions : t.goal_id # NULL /\ \E g \in goals : g.id = t.goal_id

\* C10: Save Limit and Delete Budget report failure, and change no budget,
\* when no budget of the owner has the id they act on
C10_MissingBudgetReported ==
  [][(/\ last'.op \in {"save_limit", "delete_budget"}
      /\ sess' # sess
      /\ ~\E b \in budgets : b.id = last'.id /\ b.user_id = USER_ID)
       => /\ last'.msg \notin {"Limit updated.", "Budget deleted."}
          /\ budgets' = budgets]_vars

\* the (owner, category, period, start_date) of a budget row
BudgetKey(b) == <<b.user_id, b.category, b.period, b.start_date>>

\* C11: Create Budget for a key (owner, category, period, start_date) that a
\* stored budget already has reports failure (the generic one when the
\* inputs pass validation) and leaves the budgets as they were; in every reachable state no two budgets share a key
C11_DuplicateBudgetRejected ==
  /\ [](\A b1 \in budgets, b2 \in budgets : BudgetKey(b1) = BudgetKey(b2) => b1 = b2)
  /\ [][(/\ last'.op = "create_budget" /\ sess' # sess
         /\ \E b \in budgets : BudgetKey(b) = <<USER_ID>> \o last'.key)
          => /\ last'.msg # "Budget created."
             /\ last'.amount > 0 => last'.msg = "Could not create budget."
             /\ budgets' = budgets]_vars

\* a second Create Budget for the stored key has failed, next to a budget
\* of the other period whose limit was changed
C11_Witness ==
  /\ last.op = "create_budget" /\ last.msg = "Could not create budget."
  /\ \E b \in budgets : BudgetKey(b) = <<USER_ID>> \o last.key
  /\ Cardinality(budgets) = 2
  /\ \E b \in budgets : b.limit_amount = 500

\* C12: every stored budget limit, goal target and transaction amount is
\* greater than 0 and every stored budget category and goal name is non-empty,
\* whatever create and update forms have been submitted
C12_StoredValuesValid ==
  /\ \A b \in budgets : b.limit_amount > 0 /\ b.category # ""
  /\ \A g \in goals : g.target_amount > 0 /\ g.name # ""
  /\ \A t \in transactions : t.amount > 0

(***************************************************************************)
(* Claims about the Accounts page                                          *)
(***************************************************************************)
\* C13: every account row a load of the Accounts page shows belongs to the
\* owner the page runs for, and Save Changes, Set Balance and Delete Account
\* leave the accounts and transactions of every other owner as they were
C13_OwnerScoped ==
  /\ [](last.op = "load_accounts" =>
          \A r \in shown : \E a \in accounts : a.id = r.id /\ a.user_id = USER_ID)
  /\ [][(last'.op \in {"save_account", "set_balance", "delete_account"} /\ sess' # sess)
          => /\ \A a \in accounts : a.user_id # USER_ID => a \in accounts'
             /\ \A t \in transactions : t.user_id # USER_ID => t \in transactions']_vars

(***************************************************************************)
(* Claims about the Analytics page and the dashboard                       *)
(***************************************************************************)
\* the owner's debits with a merchant on or after (today - days) 00:00:00
RecurringWindow(days) ==
  {t \in transactions :
     /\ t.user_id = USER_ID /\ t.tx_type = "debit" /\ t.merchant # NoText
     /\ t.ts >= DateToTs(DateOfTs(now) - days)}

RecurringGroupOf(m, c, days) ==
  {t \in RecurringWindow(days) : t.merchant = m /\ t.category = c}

\* C14: a recurring table the store answered lists exactly the (merchant,
\* category) groups of the owner's debits with a merchant in the trailing
\* window that have 3 or more members, once each, with the group's count,
\* its mean amount (to the six decimals of the store's AVG), the first and
\* last date seen, ordered by count descending, then mean descending
C14_RecurringGroups ==
  (last.op = "load_analytics" /\ last.key[2]) =>
    LET res  == shown.recurring
        days == last.amount
        G(r) == RecurringGroupOf(r.merchant, r.category, days)
    IN  /\ \A i \in DOMAIN res :
             /\ res[i].times = Cardinality(G(res[i]))
             /\ res[i].times >= 3
             /\ 2 * Abs(res[i].avg_amount * res[i].times - 10000 * SumAmount(G(res[i])))
                  <= res[i].times
             /\ \A t \in G(res[i]) :
                  res[i].first_seen <= DateOfTs(t.ts) /\ DateOfTs(t.ts) <= res[i].last_seen
             /\ \E t \in G(res[i]) : DateOfTs(t.ts) = res[i].first_seen
             /\ \E t \in G(res[i]) : DateOfTs(t.ts) = res[i].last_seen
        /\ \A t \in RecurringWindow(days) :
             Cardinality(RecurringGroupOf(t.merchant, t.category, days)) >= 3
               => \E i \in DOMAIN res :
                    res[i].merchant = t.merchant /\ res[i].category = t.category
        /\ \A i \in DOMAIN res, j \in DOMAIN res :
             /\ (i # j => <<res[i].merchant, res[i].category>>
                            # <<res[j].merchant, res[j].category>>)
             /\ (i < j => \/ res[i].times > res[j].times
                          \/ /\ res[i].times = res[j].times
                             /\ res[i].avg_amount >= res[j].avg_amount)

\* four Foo/Bills debits (the first on the lower end of the window) come
\* before three Bar/Bills debits of a higher mean
C14_Witness ==
  /\ last.op = "load_analytics" /\ last.key[2] /\ last.amount = 7
  /\ Len(shown.recurring) = 2
  /\ shown.recurring[1].merchant = "Foo" /\ shown.recurring[1].times = 4
  /\ shown.recurring[2].merchant = "Bar" /\ shown.recurring[2].times = 3
  /\ shown.recurring[1].avg_amount < shown.recurring[2].avg_amount
  /\ shown.recurring[1].first_seen = Today - 7

\* the owner's transactions on or after (today - days) 00:00:00
ActivityWindow(days) ==
  {t \in transactions :
     t.user_id = USER_ID /\ t.ts >= DateToTs(DateOfTs(now) - days)}

C16_ReadsAreRecomputed ==
  /\ [](/\ \A r \in FreshBudgets : r.spent = SumAmount(CountedFor(BudgetOf(r)))
        /\ \A r \in FreshGoals : r.contributed = SumAmount(CreditsTagged(r.id))
        /\ FreshGoals # {} => \A g \in goals : \E r \in FreshGoals : r.id = g.id)
  /\ [][(/\ last'.op = "contribute" /\ last'.msg = "Contribution recorded."
         /\ sess' # sess)
          => SumAmount({t \in transactions' :
                          t.tx_type = "credit" /\ t.goal_id = last'.id})
               = SumAmount(CreditsTagged(last'.id)) + last'.amount]_vars

\* a goal row read as 4 after two contributions of 2, while the other session
\* still holds a Transactions frame that lists one of them
C16_Witness ==
  /\ \E r \in FreshGoals : r.contributed = 4
  /\ Cardinality(CreditsTagged(1)) = 2
  /\ \E s \in Sessions : sess[s].page = "Transactions" /\ sess[s].txs # {}

(***************************************************************************)
(* Claims about the store boundary                                         *)
(***************************************************************************)
FailureMessages ==
  {"Could not create goal.", "Failed to add contribution.", "Update failed.",
   "Delete failed."}

\* C17: whenever a form of the Goals page hands a statement to run_query and
\* the store fails (the connection cannot be opened or the execution raises,
\* or the statement itself is refused), the page gets the failure value and
\* shows its failure message, nothing is stored, and the statement is not
\* sent again: no step succeeds after a failure on the store's side, and no
\* step adds more than the one row of its statement
C17_FailureIsTerminal ==
  [][(sess' # sess /\ last'.key # <<>>
      /\ last'.op \in {"create_goal", "contribute", "save_goal", "delete_goal"})
       => /\ ~last'.key[1] => last'.msg \in FailureMessages
          /\ last'.msg \in FailureMessages => UNCHANGED store
          /\ Cardinality(transactions') <= Cardinality(transactions) + 1
          /\ Cardinality(goals') <= Cardinality(goals) + 1
          /\ nextId'["transactions"] <= nextId["transactions"] + 1
          /\ nextId'["goals"] <= nextId["goals"] + 1]_vars

\* a contribution refused by the store itself (its goal was deleted from the
\* other session after the frame was read) while a goal and an earlier
\* contribution are stored
C17_Witness ==
  /\ last.op = "contribute" /\ last.msg = "Failed to add contribution."
  /\ last.key = <<TRUE>>
  /\ ~\E g \in goals : g.id = last.id
  /\ goals # {} /\ transactions # {}

(***************************************************************************)
(* Claims about deleting an account                                        *)
(***************************************************************************)
\* C18: a Delete Account the store executes removes the account row and
\* exactly the transactions that reference it, every transaction of another
\* account staying as it was; no stored transaction references an account
\* that does not exist; and the budget and goal rows read afterwards are the
\* sums over the transactions that are left
C18_DeleteAccountCascades ==
  /\ [](/\ \A t \in transactions : \E a \in accounts : a.id = t.account_id
        /\ \A r \in FreshBudgets : r.spent = SumAmount(CountedFor(BudgetOf(r)))
        /\ \A r \in FreshGoals : r.contributed = SumAmount(CreditsTagged(r.id)))
  /\ [][(/\ last'.op = "delete_account" /\ last'.msg = "Account deleted."
         /\ sess' # sess)
          => /\ accounts' = {a \in accounts : a.id # last'.id}
             /\ transactions' = {t \in transactions : t.account_id # last'.id}
             /\ UNCHANGED <<budgets, goals>>]_vars

\* account 2 is gone with its transaction; the budget read after it shows
\* the one debit of account 1 that is left
C18_Witness ==
  /\ last.op = "load_budgets"
  /\ ~\E a \in accounts : a.id = 2
  /\ Cardinality(transactions) = 1 /\ nextId["transactions"] = 3
  /\ \E t \in transactions : t.account_id = 1 /\ t.id = 1
  /\ \E r \in FreshBudgets : r.spent = 1

(***************************************************************************)
(* Claims about the alerts feed                                            *)
(***************************************************************************)
\* the alerts the feed of the owner lists
FeedIds == {r.id : r \in AlertsJoin(USER_ID)}

\* C19: no step of the program takes an alert out of the owner's alerts
\* feed: an alert the feed lists is listed after every operation, the
\* deletion of its budget included
C19_AlertsStayInFeed ==
  [][FeedIds \subseteq FeedIds']_vars

(***************************************************************************)
(* Claims about the transaction search                                     *)
(***************************************************************************)

\* the text holds the query as a run of consecutive characters
Contains(text, query) ==
  /\ text # NoText
  /\ \E i \in 1..(Len(Chars(text)) - Len(Chars(query)) + 1) :
       SubSeq(Chars(text), i, i + Len(Chars(query)) - 1) = Chars(query)

\* the row satisfies every filter that f supplies
SatisfiesFilters(r, f) ==
  /\ f.account_filter # {} => r.account_id \in f.account_filter
  /\ f.type_filter # {} => r.tx_type \in f.type_filter
  /\ Strip(f.category_query) # "" => Contains(r.category, Strip(f.category_query))
  /\ Strip(f.merchant_query) # "" => Contains(r.merchant, Strip(f.merchant_query))
  /\ MkTs(f.date_from, 0) <= r.ts /\ r.ts <= MkTs(f.date_to, SecondsPerDay - 1)

\* C20: an answered search shows at most 500 rows, newest first, each a
\* stored transaction that satisfies every supplied filter (account and type
\* in the selected sets, category and merchant containing the given
\* substrings, ts within From 00:00:00 .. To 23:59:59), and a match that is
\* left out is no newer than the last row of a full page.
C20_SearchReturnsMatches ==
  (last.op = "load_transactions" /\ Len(last.key) = 3 /\ last.key[2])
    => LET f == last.key[3]
           n == Len(shown)
       IN  /\ n <= SearchLimit
           /\ \A i \in 1..n : \A j \in i..n : shown[i].ts >= shown[j].ts
           /\ \A i \in 1..n :
                /\ \E t \in transactions : SearchRow(t) = shown[i]
                /\ SatisfiesFilters(shown[i], f)
           /\ \A t \in transactions :
                (SatisfiesFilters(t, f) /\ SearchRow(t) \notin Rows(shown))
                  => n = SearchLimit /\ t.ts <= shown[n].ts

(***************************************************************************)
(* Claims about the shared pulls                                           *)
(***************************************************************************)
\* the owner's debits of one category
OwnerDebits(c) ==
  {t \in transactions : t.user_id = USER_ID /\ t.category = c /\ t.tx_type = "debit"}

\* the categories of the owner's transactions
OwnerCategories == {t.category : t \in {x \in transactions : x.user_id = USER_ID}}

\* C21: an answered category-totals read has one row per category of the
\* owner whose debit sum is strictly positive, spent being that sum, rows by
\* spent descending, cut to the top K rows (K the limit argument): a category
\* with a positive sum that is left out is no larger than the last row of a
\* full frame, and a category with credits only has no row.
C21_CategoryTotals ==
  (last.op = "fetch_category_totals" /\ last.key[1])
    => LET k == last.amount
           n == Len(shown)
       IN  /\ n <= k
           /\ \A i \in 1..n, j \in 1..n : i < j =>
                /\ shown[i].spent >= shown[j].spent
                /\ shown[i].category # shown[j].category
           /\ \A i \in 1..n :
                /\ shown[i].category \in OwnerCategories
                /\ shown[i].spent = SumAmount(OwnerDebits(shown[i].category))
                /\ shown[i].spent > 0
           /\ \A c \in OwnerCategories :
                (SumAmount(OwnerDebits(c)) > 0
                   /\ \A i \in 1..n : shown[i].category # c)
                  => n = k /\ SumAmount(OwnerDebits(c)) <= shown[n].spent

\* a frame cut to K rows while a credit-only category and a third spending
\* category exist
C21_Witness ==
  /\ last.op = "fetch_category_totals" /\ last.key[1]
  /\ Len(shown) = last.amount
  /\ \E c \in OwnerCategories : OwnerDebits(c) = {}
  /\ \E c \in OwnerCategories :
       /\ SumAmount(OwnerDebits(c)) > 0
       /\ \A i \in 1..Len(shown) : shown[i].category # c

(***************************************************************************)
(* Claims about the account balance                                        *)
(***************************************************************************)
\* the balance of each account, by id
Balances(accs) == {<<a.id, a.balance>> : a \in accs}

\* the forms of the Transactions and Goals pages that the claim names
TransactionForms ==
  {"add_transaction", "update_transaction", "delete_transaction", "contribute"}

\* C22: a step of Add / Update / Delete Transaction or of Contribute leaves
\* the balance of every account as it was, and so does Save Changes (rename,
\* threshold); a balance that differs after a step was set by Set Balance
\* for that account, a balance of a new account by Create Account; and a
\* step of Set Balance leaves the transactions as they were.
C22_BalanceIsFreeStanding ==
  [][/\ last'.op \in TransactionForms \cup {"save_account"}
          => Balances(accounts') = Balances(accounts)
     /\ \A a \in accounts, b \in accounts' :
          (a.id = b.id /\ a.balance # b.balance)
            => last'.op = "set_balance" /\ last'.id = a.id /\ b.balance = last'.amount
     /\ \A b \in accounts' :
          (\A a \in accounts : a.id # b.id)
            => last'.op = "add_account" /\ b.balance = last'.amount
     /\ last'.op = "set_balance" => transactions' = transactions]_vars

\* a transaction was added to an account whose balance had been set by hand
\* and the balance is still the one that was set, while the transactions of
\* the account sum to something else
C22_Witness ==
  /\ last.op = "add_transaction" /\ last.msg = "Transaction added."
  /\ \E a \in accounts :
       /\ a.balance = 500
       /\ \E t \in transactions : t.id = last.id /\ t.account_id = a.id
       /\ SumAmount({t \in transactions : t.account_id = a.id}) # a.balance

(***************************************************************************)
(* Claims about failed reads                                               *)
(***************************************************************************)
\* C23: a read whose query came back as None (connection or statement
\* failed) gives its page the empty frame and the page shows what it shows
\* for a store without matching rows (Budgets: "No budgets yet."), whatever
\* the store holds: no error outcome, and the rows are not fetched by a
\* second attempt.
C23_FailedReadLooksEmpty ==
  /\ (last.op = "load_budgets" /\ ~last.key[1])
       => shown = {} /\ last.msg = "No budgets yet."
  /\ (last.op = "load_goals" /\ ~last.key[1])
       => shown = {} /\ last.msg = "No goals yet."
  /\ (last.op = "load_accounts" /\ ~last.key[1])
       => shown = {} /\ last.msg = "No accounts yet."
  /\ (last.op = "load_alerts" /\ ~last.key[2])
       => shown = <<>> /\ last.msg = "No alerts yet."
  /\ (last.op = "load_transactions" /\ ~last.key[1])
       => shown = <<>> /\ last.msg = "No accounts found."
  /\ (last.op = "load_transactions" /\ Len(last.key) = 3 /\ ~last.key[2])
       => shown = <<>> /\ last.msg = "No transactions match your filters."
  /\ (last.op = "load_analytics" /\ ~last.key[1])
       => shown.avg_daily = {} /\ shown.average = "none"
  /\ (last.op = "load_analytics" /\ ~last.key[2])
       => /\ shown.recurring = <<>>
          /\ last.msg = "No likely recurring payments detected in this window."
  /\ (last.op = "load_home" /\ ~last.key[1])
       => shown.avg_daily = {} /\ shown.average.num = 0
  /\ (last.op = "fetch_category_totals" /\ ~last.key[1]) => shown = <<>>

\* the Budgets page reports that there are no budgets while the store holds
\* a budget of the owner
C23_Witness ==
  /\ last.op = "load_budgets" /\ ~last.key[1]
  /\ last.msg = "No budgets yet."
  /\ BudgetsQuery(USER_ID) # {}

====
